---- MODULE Spec2Model ----
(***************************************************************************)
(* UUIDv47: SipHash-2-4 keyed PRF, the v7 <-> v4-facade mask transform,    *)
(* the canonical text codec and the monotonic v7 generator of the          *)
(* PostgreSQL extension.                                                   *)
(*                                                                         *)
(* A uint64_t is a tuple of four 16-bit limbs, least significant first     *)
(* (w[1] = bits 0..15, ..., w[4] = bits 48..63), so that all arithmetic    *)
(* is exact modulo 2^64.  A uuid128_t is a function 0..15 -> 0..255.       *)
(* A character is its ASCII code.                                          *)
(***************************************************************************)
EXTENDS Integers, Sequences, FiniteSets, TLC

(***************************************************************************)
(* 64-bit machine arithmetic                                               *)
(***************************************************************************)
Pow2(n) == 2 ^ n

RECURSIVE BitXor(_, _, _)
\* a ^ b on n-bit operands
BitXor(a, b, n) ==
  IF n = 0 THEN 0
  ELSE ((a + b) % 2) + 2 * BitXor(a \div 2, b \div 2, n - 1)

\* a ^ b on uint8_t operands, tabulated
XorTab == [a \in 0..255 |-> [b \in 0..255 |-> BitXor(a, b, 8)]]

Xor16(a, b) ==
  XorTab[a \div 256][b \div 256] * 256 + XorTab[a % 256][b % 256]

\* x ^ y on uint64_t
Xor64(x, y) == <<Xor16(x[1], y[1]), Xor16(x[2], y[2]),
                 Xor16(x[3], y[3]), Xor16(x[4], y[4])>>

\* x + y on uint64_t: the carry out of bit 63 is dropped
Add64(x, y) ==
  LET s1 == x[1] + y[1]
      s2 == x[2] + y[2] + (s1 \div 65536)
      s3 == x[3] + y[3] + (s2 \div 65536)
      s4 == x[4] + y[4] + (s3 \div 65536)
  IN  <<s1 % 65536, s2 % 65536, s3 % 65536, s4 % 65536>>

\* a left shift in place of the rotation: x << b, the bits shifted out are lost
ROTL64_shl(x, b) ==
  LET q == b \div 16
      r == b % 16
      L(i) == IF i - q >= 0 THEN x[i - q + 1] ELSE 0
      M(i) == ((L(i) % Pow2(16 - r)) * Pow2(r)) + (L(i - 1) \div Pow2(16 - r))
  IN  <<M(0), M(1), M(2), M(3)>>

\* ROTL64(x, b) == ((x << b) | (x >> (64 - b))), 0 < b < 64
ROTL64(x, b) ==
  LET q == b \div 16
      r == b % 16
      \* limb i (0-based) of x rotated left by whole limbs
      L(i) == x[((i - q + 4) % 4) + 1]
      \* limb i of the result: low bits of L(i) shifted up, high bits of L(i-1)
      M(i) == ((L(i) % Pow2(16 - r)) * Pow2(r)) + (L((i + 3) % 4) \div Pow2(16 - r))
  IN  <<M(0), M(1), M(2), M(3)>>

\* rd64le: eight bytes p[off..off+7] of a 0-based byte array, little-endian
rd64le(p, off) ==
  <<p[off]     + 256 * p[off + 1], p[off + 2] + 256 * p[off + 3],
    p[off + 4] + 256 * p[off + 5], p[off + 6] + 256 * p[off + 7]>>

\* (uint8_t)(w >> (8 * n)): byte n of a uint64_t, 0 <= n <= 7
ByteOf(w, n) ==
  IF n % 2 = 0 THEN w[(n \div 2) + 1] % 256 ELSE w[(n \div 2) + 1] \div 256

\* wr48be: dst[0..5] as written for v48; bits 48..63 of v48 are not written
wr48be(v48) ==
  [i \in 0..5 |-> ByteOf(v48, 5 - i)]

\* an rd48be that reads the six bytes little-endian
rd48be_le(src, off) ==
  <<src[off + 1] * 256 + src[off], src[off + 3] * 256 + src[off + 2],
    src[off + 5] * 256 + src[off + 4], 0>>

\* rd48be: six bytes src[off..off+5], big-endian, as a uint64_t
rd48be(src, off) ==
  <<src[off + 4] * 256 + src[off + 5], src[off + 2] * 256 + src[off + 3],
    src[off] * 256 + src[off + 1], 0>>

(***************************************************************************)
(* SipHash-2-4                                                             *)
(***************************************************************************)
\* One SipRound on the state v = <<v0, v1, v2, v3>>, in four groups of
\* statements; each group reads only values the earlier groups have written.
\* v0 += v1; v2 += v3; v1 = ROTL64(v1, 13); v3 = ROTL64(v3, 16)
SipRoundA(v) ==
  IF Len(v) # 4 THEN v
  ELSE <<Add64(v[1], v[2]), ROTL64(v[2], 13), Add64(v[3], v[4]), ROTL64(v[4], 16)>>

\* v1 ^= v0; v3 ^= v2; v0 = ROTL64(v0, 32)
SipRoundB(v) ==
  IF Len(v) # 4 THEN v
  ELSE <<ROTL64(v[1], 32), Xor64(v[2], v[1]), v[3], Xor64(v[4], v[3])>>

\* v2 += v1; v0 += v3; v1 = ROTL64(v1, 17); v3 = ROTL64(v3, 21)
SipRoundC(v) ==
  IF Len(v) # 4 THEN v
  ELSE <<Add64(v[1], v[4]), ROTL64(v[2], 17), Add64(v[3], v[2]), ROTL64(v[4], 21)>>

\* v1 ^= v2; v3 ^= v0; v2 = ROTL64(v2, 32)
SipRoundD(v) ==
  IF Len(v) # 4 THEN v
  ELSE <<v[1], Xor64(v[2], v[3]), ROTL64(v[3], 32), Xor64(v[4], v[1])>>

SipRound(v) == SipRoundD(SipRoundC(SipRoundB(SipRoundA(v))))

RECURSIVE SipRounds(_, _)
\* for (int i = 0; i < n; i++) SipRound, on the four state words v
SipRounds(v, n) ==
  IF Len(v) # 4 \/ n = 0 THEN v ELSE SipRounds(SipRound(v), n - 1)

\* v0 ^= m, after the rounds
SipXorV0(v, m) ==
  IF Len(v) # 4 THEN v ELSE <<Xor64(v[1], m), v[2], v[3], v[4]>>

\* v3 ^= m; 2 rounds; v0 ^= m
SipCompress(v, m) ==
  IF Len(v) # 4 THEN v
  ELSE SipXorV0(SipRounds(<<v[1], v[2], v[3], Xor64(v[4], m)>>, 2), m)

RECURSIVE SipBlocks(_, _, _, _)
\* for (; in != end; in += 8): the full 8-byte blocks at offsets off, off+8, ..
SipBlocks(v, in, off, end) ==
  IF Len(v) # 4 \/ off = end THEN v
  ELSE SipBlocks(SipCompress(v, rd64le(in, off)), in, off + 8, end)

\* the switch (inlen & 7u) with its fallthroughs: byte j of t is in[j] for
\* j < left, and b = (inlen << 56) | t
SipLast(in, off, inlen) ==
  LET left == inlen % 8
      T(j) == IF j < left THEN in[off + j] ELSE 0
  IN  <<T(0) + 256 * T(1), T(2) + 256 * T(3), T(4) + 256 * T(5),
        T(6) + 256 * (inlen % 256)>>

SipInitV0 == <<25973, 28787, 28005, 29551>>   \* 0x736f6d6570736575
SipInitV1 == <<28525, 28260, 29281, 25711>>   \* 0x646f72616e646f6d
SipInitV2 == <<29281, 28261, 26469, 27769>>   \* 0x6c7967656e657261
SipInitV3 == <<25971, 31092, 25698, 29797>>   \* 0x7465646279746573
SipFinalXor == <<255, 0, 0, 0>>                \* 0xff

\* v0..v3 at entry
SipInit(k0, k1) ==
  <<Xor64(SipInitV0, k0), Xor64(SipInitV1, k1),
    Xor64(SipInitV2, k0), Xor64(SipInitV3, k1)>>

\* return v0 ^ v1 ^ v2 ^ v3
SipFold(v) == Xor64(Xor64(Xor64(v[1], v[2]), v[3]), v[4])

\* v2 ^= 0xff; 4 rounds; return v0 ^ v1 ^ v2 ^ v3
SipFinish(v) ==
  IF Len(v) # 4 THEN v
  ELSE SipFold(SipRounds(<<v[1], v[2], Xor64(v[3], SipFinalXor), v[4]>>, 4))

\* siphash24(in, inlen, k0, k1); in is a 0-based byte array
siphash24(in, inlen, k0, k1) ==
  SipFinish(SipCompress(SipBlocks(SipInit(k0, k1), in, 0, inlen - (inlen % 8)),
                        SipLast(in, inlen - (inlen % 8), inlen)))

(***************************************************************************)
(* Version / variant helpers and the mask transform                        *)
(***************************************************************************)
uuid_version(u) == (u[6] \div 16) % 16

\* a set_version that does not keep the low nibble of b[6]
set_version_clobber(u, ver) == [u EXCEPT ![6] = (ver % 16) * 16]

\* u->b[6] = (b[6] & 0x0F) | ((ver & 0x0F) << 4)
set_version(u, ver) == [u EXCEPT ![6] = (u[6] % 16) + ((ver % 16) * 16)]

\* a set_variant_rfc4122 that only ORs 0x80 in
set_variant_or_only(u) == [u EXCEPT ![8] = IF u[8] >= 128 THEN u[8] ELSE u[8] + 128]

\* u->b[8] = (b[8] & 0x3F) | 0x80
set_variant_rfc4122(u) == [u EXCEPT ![8] = (u[8] % 64) + 128]

\* a build_sip_input_from_v7 that starts the message with timestamp byte b[5]
build_sip_input_with_ts(u) ==
  [i \in 0..9 |-> IF i = 0 THEN u[5]
                  ELSE IF i = 1 THEN u[7]
                  ELSE IF i = 2 THEN u[8] % 64
                  ELSE u[9 + (i - 3)]]

\* a build_sip_input_from_v7 that takes all of b[6], version nibble included
build_sip_input_whole_b6(u) ==
  [i \in 0..9 |-> IF i = 0 THEN u[6]
                  ELSE IF i = 1 THEN u[7]
                  ELSE IF i = 2 THEN u[8] % 64
                  ELSE u[9 + (i - 3)]]

\* msg[0..9] = [b6 & 0x0F][b7][b8 & 0x3F][b9..b15]
build_sip_input_from_v7(u) ==
  [i \in 0..9 |-> IF i = 0 THEN u[6] % 16
                  ELSE IF i = 1 THEN u[7]
                  ELSE IF i = 2 THEN u[8] % 64
                  ELSE u[9 + (i - 3)]]

\* a mask of 32 bits: h & 0x00000000FFFFFFFFULL
Low48_keep32(h) == <<h[1], h[2], 0, 0>>

\* h & 0x0000FFFFFFFFFFFFULL
Low48(h) == <<h[1], h[2], h[3], 0>>

\* u with its bytes 0..5 replaced by six
Splice6(u, six) == [i \in 0..15 |-> IF i < 6 THEN six[i] ELSE u[i]]

\* out = u; wr48be(&out.b[0], ts)
WithTs48(u, ts) == Splice6(u, wr48be(ts))

\* an encode that writes the mask itself instead of ts ^ mask
encode_mask_only(v7, key) ==
  LET sipmsg == build_sip_input_from_v7(v7)
      mask48 == Low48(siphash24(sipmsg, 10, key.k0, key.k1))
      out    == WithTs48(v7, mask48)
  IN  set_variant_rfc4122(set_version(out, 4))

\* an encode that adds the mask to the timestamp instead of XORing it
encode_add_mask(v7, key) ==
  LET sipmsg == build_sip_input_from_v7(v7)
      mask48 == Low48(siphash24(sipmsg, 10, key.k0, key.k1))
      ts48   == rd48be(v7, 0)
      encTS  == Add64(ts48, mask48)
      out    == WithTs48(v7, encTS)
  IN  set_variant_rfc4122(set_version(out, 4))

uuidv47_encode_v4facade(v7, key) ==
  LET sipmsg == build_sip_input_from_v7(v7)
      mask48 == Low48(siphash24(sipmsg, 10, key.k0, key.k1))
      ts48   == rd48be(v7, 0)
      encTS  == Xor64(ts48, mask48)
      out    == WithTs48(v7, encTS)
  IN  set_variant_rfc4122(set_version(out, 4))

\* a decode that writes the masked timestamp back without the XOR
decode_no_unmask(v4facade, key) ==
  LET out == WithTs48(v4facade, rd48be(v4facade, 0))
  IN  set_variant_rfc4122(set_version(out, 7))

uuidv47_decode_v4facade(v4facade, key) ==
  LET sipmsg == build_sip_input_from_v7(v4facade)
      mask48 == Low48(siphash24(sipmsg, 10, key.k0, key.k1))
      encTS  == rd48be(v4facade, 0)
      ts48   == Xor64(encTS, mask48)
      out    == WithTs48(v4facade, ts48)
  IN  set_variant_rfc4122(set_version(out, 7))

(***************************************************************************)
(* State                                                                   *)
(***************************************************************************)
VARIABLES
  vals,   \* mask transform: vals[1] = the two identifiers handed in (lane 1,
          \* lane 2); vals[i + 1] = their values after the i-th call
  keyA,   \* mask transform: the key
  keyB,   \* mask transform: a second, different key
  ops,    \* mask transform: the calls made so far, <<function, key name>>
  sip_key,    \* PRF: the key <<k0, k1>> of the calls
  sip_calls,  \* PRF: the calls made so far, <<inlen, returned value>>
  txt_pc,     \* text codec: "uuid", "text", "formatted" or "parsed"
  txt_src,    \* text codec: what the run started from, "uuid" or "text"
  txt_uuid,   \* text codec: the uuid128_t handed to uuid_format
  txt_str,    \* text codec: the C string, without its terminating NUL
  txt_ok,     \* text codec: what uuid_parse returned
  txt_out,    \* text codec: *out of uuid_parse
  txt_max,    \* text codec: the largest index uuid_parse read, -1 if none
  gen_state_last_ms,  \* generator: static uint64_t gen_state_last_ms
  gen_state_ctr,      \* generator: static uint32 gen_state_ctr, two limbs
  gen_state_hi,       \* generator: static uint64_t gen_state_hi
  gen_pc,     \* generator: "idle", or "stall" inside the overflow loop
  gen_now,    \* generator: the latest value current_unix_ms() returned
  gen_prev,   \* generator: the identifier returned by the call before
  gen_last,   \* generator: the identifier returned by the latest call
  gen_n,      \* generator: the number of calls that have returned
  uuid47_key_guc,  \* extension: static char *uuid47_key_guc, [null, s]
  key_bytea,  \* key parsing: the bytes of the bytea argument
  key_calls,  \* key parsing: the calls made so far, <<function, ok, key>>
  key_top,    \* key parsing: the largest index of compact[] written so far, -1 if none
  key_ub,     \* key parsing: what this build does once compact[] was overrun
  st_pc,      \* storage: "empty", "stored", "shown", "back" or "failed"
  st_from,    \* storage: the entry point that stored st_val, or "none"
  st_in,      \* storage: the 16 bytes that entry point was given
  st_tsarg,   \* storage: the TimestampTz uuid47_generate_at was given
  st_val,     \* storage: the stored uuid47 datum
  st_outfn,   \* storage: the function that last handed a value out, or "none"
  st_out,     \* storage: the 16 bytes it handed out
  st_ts,      \* storage: the TimestampTz uuid47_timestamp returned
  st_back,    \* storage: what uuid_to_uuid47 made of the bytes handed out
  st_err,     \* storage: the error the latest statement raised, or "none"
  bk_gen,     \* backends: the statics gen_state_* of each backend process
  bk_call     \* backends: each backend's call of the generator, and where it stands

maskVars == <<vals, keyA, keyB, ops>>
sipVars  == <<sip_key, sip_calls>>
txtVars  == <<txt_pc, txt_src, txt_uuid, txt_str, txt_ok, txt_out, txt_max>>
genVars  == <<gen_state_last_ms, gen_state_ctr, gen_state_hi, gen_pc, gen_now,
              gen_prev, gen_last, gen_n>>
keyVars  == <<uuid47_key_guc, key_bytea, key_calls, key_top, key_ub>>
stVars   == <<st_pc, st_from, st_in, st_tsarg, st_val, st_outfn, st_out, st_ts,
              st_back, st_err>>
bkVars   == <<bk_gen, bk_call>>
pgVars   == <<keyVars, stVars, bkVars>>
vars == <<maskVars, sipVars, txtVars, genVars, pgVars>>

Zero64 == <<0, 0, 0, 0>>
ZeroUuid == [i \in 0..15 |-> 0]

(***************************************************************************)
(* Inputs of the mask transform                                            *)
(***************************************************************************)
\* craft_v7 of the tests: a version-7, variant-10 identifier from its fields
craft_v7(ts_ms_48, rand_a_12, rand_b_62) ==
  [i \in 0..15 |->
         IF i < 6 THEN wr48be(Low48(ts_ms_48))[i]
         ELSE IF i = 6 THEN 112 + ((rand_a_12 \div 256) % 16)
         ELSE IF i = 7 THEN rand_a_12 % 256
         ELSE IF i = 8 THEN 128 + (ByteOf(rand_b_62, 7) % 64)
         ELSE ByteOf(rand_b_62, 6 - (i - 9))]

\* the same 16 bytes with another version nibble and other variant bits
WithMarkers(u, ver, var) ==
  [u EXCEPT ![6] = (ver * 16) + (u[6] % 16), ![8] = (var * 64) + (u[8] % 64)]

\* timestamps: 0 and the tests' 0x123456789ABC
TsSamples == {<<0, 0, 0, 0>>, <<39612, 22136, 4660, 0>>}
\* fields A and B: all zero, and the tests' 0x0ABC / 0x0123456789ABCDEF
RandSamples == {<<0, <<0, 0, 0, 0>>>>, <<2748, <<52719, 35243, 17767, 291>>>>}
\* <<version nibble, variant bits>>: sortable, facade, and two that are neither
MarkerSamples == {<<7, 2>>, <<4, 2>>, <<0, 3>>, <<15, 0>>}

SortableSamples == {craft_v7(t, r[1], r[2]) : t \in TsSamples, r \in RandSamples}
UuidSamples ==
  {WithMarkers(u, m[1], m[2]) : u \in SortableSamples, m \in MarkerSamples}

\* the tests' key and its "wrong" key (k0 ^ 0xdeadbeef, k1 ^ 0x1337)
KeyTest  == [k0 |-> <<52719, 35243, 17767, 291>>, k1 |-> <<12816, 30292, 47768, 65244>>]
KeyWrong == [k0 |-> <<29440, 22278, 17767, 291>>, k1 |-> <<8487, 30292, 47768, 65244>>]
\* two more keys: k0 = 17586500 and k0 = 28949243, both with k1 = 0
KeyC1 == [k0 |-> <<22852, 268, 0, 0>>, k1 |-> <<0, 0, 0, 0>>]
KeyC2 == [k0 |-> <<47867, 441, 0, 0>>, k1 |-> <<0, 0, 0, 0>>]
KeyPairs == {<<KeyTest, KeyWrong>>, <<KeyC1, KeyC2>>}

MaxOps == 2

Lanes == {1, 2}
KeyNames == {"A", "B"}
KeyOf(kn) == IF kn = "A" THEN keyA ELSE keyB

\* the parts of the state a run does not use stay at these values
MaskIdle == vals = <<>> /\ keyA = KeyTest /\ keyB = KeyWrong /\ ops = <<>>
SipIdle  == sip_key = <<Zero64, Zero64>> /\ sip_calls = <<>>
TxtIdle  ==
  /\ txt_pc = "idle" /\ txt_src = "none" /\ txt_uuid = ZeroUuid /\ txt_str = <<>>
  /\ txt_ok = FALSE /\ txt_out = ZeroUuid /\ txt_max = -1
GenIdle  ==
  /\ gen_state_last_ms = Zero64 /\ gen_state_ctr = <<0, 0>> /\ gen_state_hi = Zero64
  /\ gen_pc = "idle" /\ gen_now = Zero64
  /\ gen_prev = ZeroUuid /\ gen_last = ZeroUuid /\ gen_n = 0

KeyIdle  ==
  /\ uuid47_key_guc = [null |-> TRUE, s |-> <<>>] /\ key_bytea = <<>> /\ key_calls = <<>>
  /\ key_top = -1 /\ key_ub = "none"
StIdle   ==
  /\ st_pc = "empty" /\ st_from = "none" /\ st_in = ZeroUuid /\ st_tsarg = Zero64
  /\ st_val = ZeroUuid
  /\ st_outfn = "none" /\ st_out = ZeroUuid /\ st_ts = Zero64
  /\ st_back = ZeroUuid /\ st_err = "none"
\* the backend processes of the concurrent generator runs
Procs == {1, 2}
BkFresh == [last_ms |-> Zero64, ctr |-> <<0, 0>>, hi |-> Zero64]
BkNoCall ==
  [pc |-> "idle", ms |-> Zero64, first |-> Zero64, rv |-> Zero64, pre |-> BkFresh,
   ret |-> ZeroUuid, post |-> BkFresh, n |-> 0, ovl |-> FALSE]
BkIdle   == bk_gen = [i \in Procs |-> BkFresh] /\ bk_call = [p \in Procs |-> BkNoCall]
PgIdle   == KeyIdle /\ StIdle /\ BkIdle

MaskInit ==
  /\ \E a \in UuidSamples, b \in SortableSamples : vals = << <<a, b>> >>
  /\ \E kp \in KeyPairs : keyA = kp[1] /\ keyB = kp[2]
  /\ ops = <<>>
  /\ SipIdle /\ TxtIdle /\ GenIdle /\ PgIdle

\* one call of uuidv47_encode_v4facade on each lane, with the same key
MaskEncode(kn) ==
  /\ Len(ops) < MaxOps
  /\ vals' = Append(vals, <<uuidv47_encode_v4facade(vals[Len(vals)][1], KeyOf(kn)),
                            uuidv47_encode_v4facade(vals[Len(vals)][2], KeyOf(kn))>>)
  /\ ops' = Append(ops, <<"encode", kn>>)
  /\ UNCHANGED <<keyA, keyB, sipVars, txtVars, genVars, pgVars>>

\* one call of uuidv47_decode_v4facade on each lane, with the same key
MaskDecode(kn) ==
  /\ Len(ops) < MaxOps
  /\ vals' = Append(vals, <<uuidv47_decode_v4facade(vals[Len(vals)][1], KeyOf(kn)),
                            uuidv47_decode_v4facade(vals[Len(vals)][2], KeyOf(kn))>>)
  /\ ops' = Append(ops, <<"decode", kn>>)
  /\ UNCHANGED <<keyA, keyB, sipVars, txtVars, genVars, pgVars>>

MaskNext == \E kn \in KeyNames : MaskEncode(kn) \/ MaskDecode(kn)

SpecMask == MaskInit /\ [][MaskNext]_vars

(***************************************************************************)
(* Properties of the mask transform                                        *)
(***************************************************************************)
VariantBits(u) == u[8] \div 64
IsSortable(u) == uuid_version(u) = 7 /\ VariantBits(u) = 2
IsFacade(u)   == uuid_version(u) = 4 /\ VariantBits(u) = 2
FieldA(u) == <<u[6] % 16, u[7]>>
FieldB(u) == <<u[8] % 64, u[9], u[10], u[11], u[12], u[13], u[14], u[15]>>
Ts48(u)   == <<u[0], u[1], u[2], u[3], u[4], u[5]>>
Calls == 1..Len(ops)
\* the 48-bit mask of key k for the PRF message of u
MaskOf(u, k) == Low48(siphash24(build_sip_input_from_v7(u), 10, k.k0, k.k1))

\* C1: decoding, with the same key, the encoding of a sortable identifier
\* (version 7, variant 10) gives back the identifier byte for byte.
C1_RoundTrip ==
  \A i \in Calls, l \in Lanes :
    ( /\ i < Len(ops)
      /\ ops[i][1] = "encode" /\ ops[i + 1][1] = "decode"
      /\ ops[i][2] = ops[i + 1][2]
      /\ IsSortable(vals[i][l]) )
    => vals[i + 2][l] = vals[i][l]

\* C1 witness: a sortable input with fields A and B set was encoded, which
\* changed its timestamp, and then decoded with the same key.
C1_Witness ==
  /\ ops = <<<<"encode", "A">>, <<"decode", "A">>>>
  /\ IsSortable(vals[1][1])
  /\ FieldA(vals[1][1]) # <<0, 0>>
  /\ Ts48(vals[2][1]) # Ts48(vals[1][1])
  /\ vals[3][1] = vals[1][1]

\* C3: whatever the input's version nibble and variant bits, the output of
\* encode has version 4 and variant 10, the output of decode version 7 and
\* variant 10.
C3_Shape ==
  \A i \in Calls, l \in Lanes :
    /\ ops[i][1] = "encode" => IsFacade(vals[i + 1][l])
    /\ ops[i][1] = "decode" => IsSortable(vals[i + 1][l])

\* C3 witness: inputs that are neither sortable nor facade were encoded, and
\* decoded.
C3_Witness ==
  /\ Len(ops) = 1
  /\ uuid_version(vals[1][1]) \notin {4, 7}
  /\ VariantBits(vals[1][1]) # 2
  /\ \/ ops[1][1] = "encode" /\ IsFacade(vals[2][1])
     \/ ops[1][1] = "decode" /\ IsSortable(vals[2][1])

\* C4: encode and decode leave field A and field B as they were, so the PRF
\* message built from the output is the one built from the input.
C4_FieldsKept ==
  \A i \in Calls, l \in Lanes :
    /\ FieldA(vals[i + 1][l]) = FieldA(vals[i][l])
    /\ FieldB(vals[i + 1][l]) = FieldB(vals[i][l])
    /\ build_sip_input_from_v7(vals[i + 1][l]) = build_sip_input_from_v7(vals[i][l])

\* C4 witness: an identifier with non-zero fields A and B went through encode
\* and decode, both of which changed its timestamp.
C4_Witness ==
  /\ Len(ops) = 2 /\ ops[1][1] = "encode" /\ ops[2][1] = "decode"
  /\ FieldA(vals[1][1]) # <<0, 0>>
  /\ FieldB(vals[1][1]) # <<0, 0, 0, 0, 0, 0, 0, 0>>
  /\ Ts48(vals[2][1]) # Ts48(vals[1][1])
  /\ Ts48(vals[3][1]) # Ts48(vals[2][1])

\* the calls were: encode with key A, then decode with key B, on a sortable
\* identifier in lane l, and the two keys differ
WrongKeyCase(l) ==
  /\ ops = <<<<"encode", "A">>, <<"decode", "B">>>>
  /\ keyA # keyB
  /\ IsSortable(vals[1][l])

\* C8 as claimed: decoding with a different key never gives back the
\* sortable identifier that was encoded.
C8_WrongKeyAlwaysDiffers ==
  \A l \in Lanes : WrongKeyCase(l) => vals[3][l] # vals[1][l]

\* C8 as amended: decoding with a different key gives back the identifier
\* exactly when the two keys' 48-bit masks for its PRF message coincide;
\* otherwise the result differs from it, and only in the timestamp field.
C8_WrongKeyDiffersIffMasksDiffer ==
  \A l \in Lanes :
    WrongKeyCase(l) =>
      /\ (vals[3][l] = vals[1][l]) <=> (MaskOf(vals[1][l], keyA) = MaskOf(vals[1][l], keyB))
      /\ [i \in 6..15 |-> vals[3][l][i]] = [i \in 6..15 |-> vals[1][l][i]]

\* C8 witness: the tests' case, where the wrong key gives another value.
C8_Witness ==
  /\ WrongKeyCase(1)
  /\ keyA = KeyTest /\ keyB = KeyWrong
  /\ vals[3][1] # vals[1][1]

\* C9: under one key, encode maps two different sortable identifiers to two
\* different facades.
C9_EncodeInjective ==
  \A i \in Calls :
    ( /\ ops[i][1] = "encode"
      /\ IsSortable(vals[i][1]) /\ IsSortable(vals[i][2])
      /\ vals[i][1] # vals[i][2] )
    => vals[i + 1][1] # vals[i + 1][2]

\* C9 witness: two sortable identifiers with the same fields A and B (hence
\* the same mask) and different timestamps were encoded under one key.
C9_Witness ==
  /\ Len(ops) = 1 /\ ops[1][1] = "encode"
  /\ IsSortable(vals[1][1]) /\ IsSortable(vals[1][2])
  /\ FieldA(vals[1][1]) = FieldA(vals[1][2])
  /\ FieldB(vals[1][1]) = FieldB(vals[1][2])
  /\ Ts48(vals[1][1]) # Ts48(vals[1][2])
  /\ vals[2][1] # vals[2][2]

\* the 10-byte PRF message of v: b6 & 0x0F, b7, b8 & 0x3F, b9..b15
PrfMsg(v) ==
  [i \in 0..9 |-> <<v[6] % 16, v[7], v[8] % 64, v[9], v[10], v[11], v[12],
                    v[13], v[14], v[15]>>[i + 1]]
\* the PRF output for v under key k, all 64 bits of it
PrfOf(v, k) == siphash24(PrfMsg(v), 10, k.k0, k.k1)

\* bytes 0..5 of vout are those of vin XOR the low 48 bits of h, as a 48-bit
\* big-endian value and byte by byte: byte j with byte 5 - j of h
TsXorLow48(vin, vout, h) ==
  /\ \A j \in 0..5 : vout[j] = XorTab[vin[j]][ByteOf(h, 5 - j)]
  /\ rd48be(vout, 0) = Xor64(rd48be(vin, 0), <<h[1], h[2], h[3], 0>>)

\* C19: for every input and key, the 48-bit big-endian value in bytes 0..5 of
\* the output of encode, and of decode, is that of the input XOR the low 48
\* bits of the PRF of the input's 10-byte message.
C19_TimestampXorMask ==
  \A i \in Calls, l \in Lanes :
    TsXorLow48(vals[i][l], vals[i + 1][l], PrfOf(vals[i][l], KeyOf(ops[i][2])))

\* C19 witness: an input that is neither sortable nor a facade, with a
\* non-zero timestamp field, was encoded under one key and the result decoded
\* under the other; each call changed all six timestamp bytes' value, and the
\* PRF output has bits set above bit 47, which the mask drops.
C19_Witness ==
  /\ ops = <<<<"encode", "A">>, <<"decode", "B">>>>
  /\ uuid_version(vals[1][1]) = 15 /\ VariantBits(vals[1][1]) = 0
  /\ Ts48(vals[1][1]) # <<0, 0, 0, 0, 0, 0>>
  /\ Ts48(vals[2][1]) # Ts48(vals[1][1])
  /\ Ts48(vals[3][1]) # Ts48(vals[2][1])
  /\ PrfOf(vals[1][1], keyA)[4] # 0

\* C25: for every facade w (version 4, variant 10) and every key, encoding
\* with that key what decode made of w gives back w byte for byte.
C25_DecodeThenEncode ==
  \A i \in Calls, l \in Lanes :
    ( /\ i < Len(ops)
      /\ ops[i][1] = "decode" /\ ops[i + 1][1] = "encode"
      /\ ops[i][2] = ops[i + 1][2]
      /\ IsFacade(vals[i][l]) )
    => vals[i + 2][l] = vals[i][l]

\* C25 witness: a facade with a non-zero timestamp field and non-zero fields
\* A and B was decoded, which changed its timestamp field, and the result
\* encoded with the same key.
C25_Witness ==
  /\ ops = <<<<"decode", "B">>, <<"encode", "B">>>>
  /\ IsFacade(vals[1][1])
  /\ FieldB(vals[1][1]) # <<0, 0, 0, 0, 0, 0, 0, 0>>
  /\ Ts48(vals[1][1]) # <<0, 0, 0, 0, 0, 0>>
  /\ Ts48(vals[2][1]) # Ts48(vals[1][1])
  /\ IsSortable(vals[2][1])
  /\ vals[3][1] = vals[1][1]

\* C26: encode and decode apply the same XOR mask and differ only in the
\* version nibble they write: what either made of an input is what the other
\* makes of it, with the version nibble changed; and for a sortable v,
\* encoding twice with one key gives v with version nibble 4, which carries
\* the timestamp of v.
C26_EncodeTwice ==
  \A i \in Calls, l \in Lanes :
    /\ ops[i][1] = "encode" =>
         vals[i + 1][l] =
           set_version(uuidv47_decode_v4facade(vals[i][l], KeyOf(ops[i][2])), 4)
    /\ ops[i][1] = "decode" =>
         vals[i + 1][l] =
           set_version(uuidv47_encode_v4facade(vals[i][l], KeyOf(ops[i][2])), 7)
    /\ ( /\ i < Len(ops)
         /\ ops[i][1] = "encode" /\ ops[i + 1][1] = "encode"
         /\ ops[i][2] = ops[i + 1][2]
         /\ IsSortable(vals[i][l]) )
       => /\ vals[i + 2][l] = set_version(vals[i][l], 4)
          /\ Ts48(vals[i + 2][l]) = Ts48(vals[i][l])

\* C26 witness: a sortable identifier with a non-zero timestamp was encoded
\* twice with one key; the first call changed the timestamp field, the second
\* brought it back, and the result is not the identifier (version 4).
C26_Witness ==
  /\ ops = <<<<"encode", "A">>, <<"encode", "A">>>>
  /\ IsSortable(vals[1][2])
  /\ Ts48(vals[1][2]) # <<0, 0, 0, 0, 0, 0>>
  /\ Ts48(vals[2][2]) # Ts48(vals[1][2])
  /\ Ts48(vals[3][2]) = Ts48(vals[1][2])
  /\ uuid_version(vals[3][2]) = 4
  /\ vals[3][2] # vals[1][2]

\* byte-wise XOR of two timestamp fields
TsXor(a, b) == [j \in 0..5 |-> XorTab[a[j]][b[j]]]

\* C27: when the two inputs of an encode call have equal fields A and B,
\* whatever their timestamps, version nibbles and variant bits, the XOR of
\* the timestamps of the two outputs is the XOR of those of the two inputs.
C27_MaskIgnoresTimestamp ==
  \A i \in Calls :
    ( /\ ops[i][1] = "encode"
      /\ FieldA(vals[i][1]) = FieldA(vals[i][2])
      /\ FieldB(vals[i][1]) = FieldB(vals[i][2]) )
    => TsXor(vals[i + 1][1], vals[i + 1][2]) = TsXor(vals[i][1], vals[i][2])

\* C27 witness: two inputs with the same non-zero fields A and B, different
\* timestamps, one of version 0 and variant 11 and the other sortable, were
\* encoded under one key, which changed both timestamp fields.
C27_Witness ==
  /\ Len(ops) = 1 /\ ops[1][1] = "encode"
  /\ uuid_version(vals[1][1]) = 0 /\ VariantBits(vals[1][1]) = 3
  /\ IsSortable(vals[1][2])
  /\ FieldA(vals[1][1]) = FieldA(vals[1][2]) /\ FieldA(vals[1][1]) # <<0, 0>>
  /\ FieldB(vals[1][1]) = FieldB(vals[1][2])
  /\ Ts48(vals[1][1]) # Ts48(vals[1][2])
  /\ Ts48(vals[2][1]) # Ts48(vals[1][1])
  /\ Ts48(vals[2][2]) # Ts48(vals[1][2])

(***************************************************************************)
(* The PRF on its own: calls of siphash24 on the messages 0, 1, .., n-1    *)
(***************************************************************************)
\* k0 = 0x0706050403020100, k1 = 0x0f0e0d0c0b0a0908
SipKeyVec == <<<<256, 770, 1284, 1798>>, <<2312, 2826, 3340, 3854>>>>
SipKeys == {SipKeyVec, <<Zero64, Zero64>>, <<KeyTest.k0, KeyTest.k1>>}

\* msg[i] = (uint8_t)i
SipMsg == [i \in 0..63 |-> i]

\* vbytes[len] read as a little-endian uint64_t, SipVectors[len + 1]
SipVectors ==
  <<<<3633, 56590, 56135, 29295>>,
   <<26621, 37852, 14789, 29944>>,
   <<20314, 55721, 32777, 3436>>,
   <<32301, 55291, 26262, 34151>>,
   <<34743, 10097, 38112, 53031>>,
   <<42637, 52633, 21860, 6262>>,
   <<58318, 22782, 18030, 52169>>,
   <<53559, 35585, 245, 43778>>,
   <<9314, 39571, 62841, 37877>>,
   <<58544, 2985, 33503, 40448>>,
   <<47603, 38109, 48069, 31325>>,
   <<44455, 8811, 12102, 62643>>,
   <<58875, 34318, 36796, 29982>>>>

MaxSipLen == 15
MaxSipCalls == 2

SipSpecInit ==
  /\ sip_key \in SipKeys
  /\ sip_calls = <<>>
  /\ MaskIdle /\ TxtIdle /\ GenIdle /\ PgIdle

\* got = siphash24(msg, len, k0, k1)
SipCall(len) ==
  /\ Len(sip_calls) < MaxSipCalls
  /\ sip_calls' = Append(sip_calls, <<len, siphash24(SipMsg, len, sip_key[1], sip_key[2])>>)
  /\ UNCHANGED <<sip_key, maskVars, txtVars, genVars, pgVars>>

SipNext == \E len \in 0..MaxSipLen : SipCall(len)

SpecSip == SipSpecInit /\ [][SipNext]_vars

\* C7: with k0 = 0x0706050403020100 and k1 = 0x0f0e0d0c0b0a0908, siphash24 of
\* the bytes 0, 1, .., N-1 is the reference value of the tests' table for
\* every N in 0..12.
C7_Vectors ==
  \A i \in 1..Len(sip_calls) :
    (sip_key = SipKeyVec /\ sip_calls[i][1] < Len(SipVectors))
      => sip_calls[i][2] = SipVectors[sip_calls[i][1] + 1]

\* C7 witness: under the vector key the message of length 12 (one full block
\* and a 4-byte tail) and the empty message were hashed to their table values,
\* 0x751e8fbc860ee5fb and 0x726fdb47dd0e0e31.
C7_Witness ==
  /\ sip_key = SipKeyVec
  /\ Len(sip_calls) = 2
  /\ sip_calls[1] = <<12, <<58875, 34318, 36796, 29982>>>>
  /\ sip_calls[2] = <<0, <<3633, 56590, 56135, 29295>>>>

(***************************************************************************)
(* The canonical text codec: uuid_parse, uuid_format                       *)
(***************************************************************************)
\* hexval without the + 10 of the letters
hexval_no_offset(c) ==
  IF 48 <= c /\ c <= 57 THEN c - 48
  ELSE IF 97 <= c /\ c <= 102 THEN c - 97
  ELSE IF 65 <= c /\ c <= 70 THEN c - 65
  ELSE -1

\* '0' = 48, '9' = 57, 'a' = 97, 'f' = 102, 'A' = 65, 'F' = 70
hexval(c) ==
  IF 48 <= c /\ c <= 57 THEN c - 48
  ELSE IF 97 <= c /\ c <= 102 THEN c - 97 + 10
  ELSE IF 65 <= c /\ c <= 70 THEN c - 65 + 10
  ELSE -1

\* int idxs[32], idxs[k] is ParseIdxs[k + 1]
ParseIdxs ==
  <<0, 1, 2, 3, 4, 5, 6, 7, 9, 10, 11, 12, 14, 15, 16, 17, 19, 20, 21, 22,
    24, 25, 26, 27, 28, 29, 30, 31, 32, 33, 34, 35>>

\* s[i] for the C string s: its characters, then the terminating NUL, then
\* whatever the memory behind the terminator holds (junk)
CharAt(s, i, junk) ==
  IF i < Len(s) THEN s[i + 1] ELSE IF i = Len(s) THEN 0 ELSE junk

\* h and l of loop iteration i
ParseH(s, i, junk) == hexval(CharAt(s, ParseIdxs[(i * 2) + 1], junk))
ParseL(s, i, junk) == hexval(CharAt(s, ParseIdxs[(i * 2) + 2], junk))

\* the iterations whose test (h < 0 || l < 0) returns false
ParseStops(s, junk) ==
  {i \in 0..15 : ParseH(s, i, junk) < 0 \/ ParseL(s, i, junk) < 0}

\* the smallest element of a non-empty set of integers
MinOf(S) == CHOOSE x \in S : \A y \in S : x <= y

\* uuid_parse(s, out): ok is the value returned, b the bytes copied to *out
\* when it is true, max the largest index of s that was read
uuid_parse(s, junk) ==
  IF ParseStops(s, junk) = {}
  THEN [ok |-> TRUE,
        b |-> [i \in 0..15 |-> (ParseH(s, i, junk) * 16) + ParseL(s, i, junk)],
        max |-> ParseIdxs[32]]
  ELSE [ok |-> FALSE,
        b |-> ZeroUuid,
        max |-> ParseIdxs[(MinOf(ParseStops(s, junk)) * 2) + 2]]

\* a digit table with capital letters: "0123456789ABCDEF"
HexD_upper == <<48, 49, 50, 51, 52, 53, 54, 55, 56, 57, 65, 66, 67, 68, 69, 70>>

\* static const char *hexd = "0123456789abcdef", hexd[k] is HexD[k + 1]
HexD == <<48, 49, 50, 51, 52, 53, 54, 55, 56, 57, 97, 98, 99, 100, 101, 102>>
\* int dpos[4]
DPos == {4, 6, 8, 10}

RECURSIVE FormatFrom(_, _, _)
\* the loop of uuid_format from iteration i on, out[0..j-1] written so far
FormatFrom(u, i, out) ==
  IF i = 16 THEN out
  ELSE FormatFrom(u, i + 1,
         (IF i \in DPos THEN Append(out, 45) ELSE out)
           \o <<HexD[((u[i] \div 16) % 16) + 1], HexD[(u[i] % 16) + 1]>>)

\* uuid_format(u, out): the characters before out[36] = '\0'
uuid_format(u) == FormatFrom(u, 0, <<>>)

\* the tests' strings, and one with every digit in both cases
TxtTest  == <<48, 48, 48, 48, 48, 48, 48, 48, 45, 48, 48, 48, 48, 45, 55, 48, 48, 48, 45, 56, 48, 48, 48, 45, 48, 48, 48, 48, 48, 48, 48, 48, 48, 48, 48, 48>>
TxtBad   == <<122, 122, 122, 122, 122, 122, 122, 122, 45, 122, 122, 122, 122, 45, 122, 122, 122, 122, 45, 122, 122, 122, 122, 45, 122, 122, 122, 122, 122, 122, 122, 122, 122, 122, 122, 122>>
TxtMixed == <<48, 49, 50, 51, 52, 53, 54, 55, 45, 56, 57, 97, 98, 45, 99, 100, 101, 102, 45, 65, 66, 67, 68, 45, 69, 70, 48, 49, 50, 51, 52, 53, 54, 55, 56, 57>>
TxtBases == {TxtTest, TxtMixed}

\* characters around the digit and letter ranges: space - / 0 9 : @ A F G ` a
\* f g x, and the byte 200
EdgeChars == {32, 45, 47, 48, 57, 58, 64, 65, 70, 71, 96, 97, 102, 103, 120, 200}
\* what is appended to a canonical string: "0", "-", "E", "EXTRA" cut to length
TxtTails == {<<48>>, <<45>>, <<69>>, <<69, 88>>, <<69, 88, 84>>, <<69, 88, 84, 82, 65>>}
MaxExtra == 2

TextSamples ==
  {TxtBad} \cup TxtBases
    \cup {[s EXCEPT ![p + 1] = c] : s \in TxtBases, p \in 0..35, c \in EdgeChars}
    \cup {SubSeq(s, 1, n) : s \in TxtBases, n \in 0..35}
    \cup {s \o t : s \in TxtBases, t \in {x \in TxtTails : Len(x) <= MaxExtra}}

\* 16-byte values, valid identifiers or not
TextUuidSamples ==
  UuidSamples
    \cup {[i \in 0..15 |-> ((a * i) + c) % 256] : a \in {0, 1, 37}, c \in {0, 159, 255}}
    \cup {[i \in 0..15 |-> (16 * ((i + k) % 16)) + (((3 * i) + k) % 16)] : k \in 0..15}

\* memory behind a string's terminator: NUL, '0' or 'z'
JunkBytes == {0, 48, 122}

TxtInit ==
  /\ \/ /\ txt_src = "uuid" /\ txt_pc = "uuid"
        /\ txt_uuid \in TextUuidSamples /\ txt_str = <<>>
     \/ /\ txt_src = "text" /\ txt_pc = "text"
        /\ txt_uuid = ZeroUuid /\ txt_str \in TextSamples
  /\ txt_ok = FALSE /\ txt_out = ZeroUuid /\ txt_max = -1
  /\ MaskIdle /\ SipIdle /\ GenIdle /\ PgIdle

\* uuid_format(&u, out)
TxtFormat ==
  /\ txt_pc = "uuid"
  /\ txt_str' = uuid_format(txt_uuid)
  /\ txt_pc' = "formatted"
  /\ UNCHANGED <<txt_src, txt_uuid, txt_ok, txt_out, txt_max, maskVars, sipVars, genVars, pgVars>>

\* uuid_parse(s, &out)
TxtParse(junk) ==
  /\ txt_pc \in {"text", "formatted"}
  /\ txt_ok' = uuid_parse(txt_str, junk).ok
  /\ txt_out' = IF uuid_parse(txt_str, junk).ok
                THEN uuid_parse(txt_str, junk).b ELSE txt_out
  /\ txt_max' = uuid_parse(txt_str, junk).max
  /\ txt_pc' = "parsed"
  /\ UNCHANGED <<txt_src, txt_uuid, txt_str, maskVars, sipVars, genVars, pgVars>>

TxtNext == TxtFormat \/ \E junk \in JunkBytes : TxtParse(junk)

SpecText == TxtInit /\ [][TxtNext]_vars

IsHexChar(c) == (48 <= c /\ c <= 57) \/ (97 <= c /\ c <= 102) \/ (65 <= c /\ c <= 70)
\* 36 characters, hyphens at offsets 8, 13, 18, 23, hex digits elsewhere
IsCanonical(s) ==
  /\ Len(s) = 36
  /\ \A p \in 0..35 :
       IF p \in {8, 13, 18, 23} THEN s[p + 1] = 45 ELSE IsHexChar(s[p + 1])

\* C5 as claimed: uuid_parse returns false for every string that is not in
\* the canonical form (36 characters, hyphens at offsets 8, 13, 18 and 23,
\* hex digits elsewhere).
C5_ParseRejectsNonCanonical ==
  (txt_pc = "parsed" /\ ~IsCanonical(txt_str)) => ~txt_ok

\* C5, what the code does: uuid_parse returns true exactly when the 32
\* characters at the digit offsets are hex digits, whatever stands at the
\* offsets 8, 13, 18, 23 and behind offset 35.
C5_ParseChecksDigitsOnly ==
  (txt_pc = "parsed" /\ Len(txt_str) >= 36) =>
    (txt_ok <=> \A k \in 1..32 : IsHexChar(txt_str[ParseIdxs[k] + 1]))

\* C5: a string with 'x' in place of the first hyphen was parsed, and
\* uuid_parse returned true.
C5_Accepted ==
  /\ txt_pc = "parsed" /\ txt_ok
  /\ txt_str = [TxtTest EXCEPT ![9] = 120]

\* C6: uuid_parse of the string written by uuid_format(v) returns true and
\* yields v, for every 16-byte v.
C6_FormatParseRoundTrip ==
  (txt_pc = "parsed" /\ txt_src = "uuid") => (txt_ok /\ txt_out = txt_uuid)

\* C6 witness: a value that is no valid identifier (version nibble and
\* variant bits other than 7 / 4 and 10) and has letters among its digits
\* was formatted and parsed back.
C6_Witness ==
  /\ txt_pc = "parsed" /\ txt_src = "uuid"
  /\ uuid_version(txt_uuid) \notin {4, 7} /\ VariantBits(txt_uuid) # 2
  /\ \E i \in 0..15 : txt_uuid[i] % 16 >= 10 /\ txt_uuid[i] \div 16 >= 10
  /\ txt_ok /\ txt_out = txt_uuid

\* '0'..'9' or 'a'..'f'
IsLowerHexChar(c) == (48 <= c /\ c <= 57) \/ (97 <= c /\ c <= 102)
\* the value of a lowercase hex digit
LowerHexVal(c) == IF c <= 57 THEN c - 48 ELSE c - 87
\* the offset in the text of the first digit of byte i: two per byte before
\* it, and one per hyphen before it
TextOffset(i) == (2 * i) + Cardinality({d \in {4, 6, 8, 10} : d <= i})

\* C17: for every 16-byte value uuid_format writes exactly 36 characters (the
\* NUL follows at offset 36): hyphens at offsets 8, 13, 18 and 23, a lowercase
\* hex digit at every other offset, the digits of byte i being its high nibble
\* then its low nibble, bytes in the order 0..15.
C17_FormatCanonicalLowercase ==
  (txt_src = "uuid" /\ txt_pc \in {"formatted", "parsed"}) =>
    /\ Len(txt_str) = 36
    /\ \A p \in 0..35 :
         IF p \in {8, 13, 18, 23} THEN txt_str[p + 1] = 45
         ELSE IsLowerHexChar(txt_str[p + 1])
    /\ \A i \in 0..15 :
         /\ LowerHexVal(txt_str[TextOffset(i) + 1]) = txt_uuid[i] \div 16
         /\ LowerHexVal(txt_str[TextOffset(i) + 2]) = txt_uuid[i] % 16
    /\ {TextOffset(i) : i \in 0..15} \cup {TextOffset(i) + 1 : i \in 0..15}
         = (0..35) \ {8, 13, 18, 23}

\* C17 witness: a value was formatted whose bytes have all sixteen nibble
\* values among them, in high and in low position, the first two bytes being
\* 0xff and 0x02.
C17_Witness ==
  /\ txt_src = "uuid" /\ txt_pc = "formatted"
  /\ {txt_uuid[i] % 16 : i \in 0..15} = 0..15
  /\ {txt_uuid[i] \div 16 : i \in 0..15} = 0..15
  /\ txt_uuid[0] = 255 /\ txt_uuid[1] = 2
  /\ SubSeq(txt_str, 1, 4) = <<102, 102, 48, 50>> /\ txt_str[9] = 45

\* C28 as claimed: uuid_parse reads no character at an index beyond the
\* terminating NUL of its input, whatever the input's length; the NUL of the
\* string s stands at index Len(s).
C28_ParseReadsWithinString ==
  txt_pc = "parsed" => txt_max <= Len(txt_str)

\* C28, the case that diverges: uuid_parse was given the first eight digits
\* of a canonical string, found its NUL at index 8 where the hyphen would be,
\* went on to index 9, and returned false or true by what it found behind.
C28_ReadBehindTerminator ==
  /\ txt_pc = "parsed" /\ txt_src = "text"
  /\ txt_str = SubSeq(TxtTest, 1, 8)
  /\ txt_max >= 10

(***************************************************************************)
(* The monotonic generator: uuid47_generate_monotonic                      *)
(***************************************************************************)
\* a < b on uint64_t
Lt64(a, b) ==
  \E i \in 1..4 : a[i] < b[i] /\ \A j \in (i + 1)..4 : a[j] = b[j]

\* an increment of the low 16 bits only, the carry is lost
Inc32_no_carry(c) == <<(c[1] + 1) % 65536, c[2]>>

\* gen_state_ctr++ on the uint32 counter <<low limb, high limb>>
Inc32(c) ==
  <<(c[1] + 1) % 65536, (c[2] + ((c[1] + 1) \div 65536)) % 65536>>

\* a mask of 44 bits: rv & ((1ULL << 44) - 1ULL)
hi_from_rand_44(rv) == <<rv[1], rv[2], rv[3] % 4096, 0>>

\* rv & ((1ULL << 42) - 1ULL)
hi_from_rand(rv) == <<rv[1], rv[2], rv[3] % 1024, 0>>

\* the backward branch without its assignment: ms stays the clock's value
clamp_keep_reading(ms, last_ms) == ms

\* ms = gen_state_last_ms, the backward branch
clamp_backwards(ms, last_ms) == last_ms

\* __uint128_t v = (hi << K) | ctr with K = 32, as eight 16-bit limbs
PackV(hi, ctr) == <<ctr[1], ctr[2], hi[1], hi[2], hi[3], hi[4], 0, 0>>

\* (v >> n) & (m - 1) for m <= 256
ShrMask(v, n, m) ==
  LET q == n \div 16
      r == n % 16
  IN  ((v[q + 1] \div Pow2(r)) + ((v[q + 2] % Pow2(r)) * Pow2(16 - r))) % m

\* a packing that takes suffix[1] from bit 64 on instead of bit 62
PackSuffix_byte1_at_64(v) ==
  [k \in 0..9 |->
     IF k = 0 THEN ShrMask(v, 70, 16)
     ELSE IF k = 1 THEN ShrMask(v, 64, 256)
     ELSE IF k = 2 THEN ShrMask(v, 56, 64)
     ELSE ShrMask(v, 8 * (9 - k), 256)]

\* uint8_t suffix[10] packed from v
PackSuffix(v) ==
  [k \in 0..9 |->
     IF k = 0 THEN ShrMask(v, 70, 16)
     ELSE IF k = 1 THEN ShrMask(v, 62, 256)
     ELSE IF k = 2 THEN ShrMask(v, 56, 64)
     ELSE ShrMask(v, 8 * (9 - k), 256)]

\* uuidv7_build_from_suffix(unix_ms, suffix, out)
uuidv7_build_from_suffix(unix_ms, suffix) ==
  [i \in 0..15 |->
     IF i < 6 THEN wr48be(Low48(unix_ms))[i]
     ELSE IF i = 6 THEN 112 + (suffix[0] % 16)
     ELSE IF i = 7 THEN suffix[1]
     ELSE IF i = 8 THEN 128 + (suffix[2] % 64)
     ELSE suffix[i - 6]]

\* the identifier built at the end of a call from ms and the state
GenBuild(ms, hi, ctr) == uuidv7_build_from_suffix(ms, PackSuffix(PackV(hi, ctr)))

MaxCalls == 3
MaxTicks == 2

\* clock readings: 0 (a clock at or before the Unix epoch), the milliseconds
\* 417 * 2^32 + 0 .. MaxTicks (October 2026), and 2^48 - 1 and 2^48
ClockSamples ==
  {Zero64, <<65535, 65535, 65535, 0>>, <<0, 0, 0, 1>>}
    \cup {<<k, 0, 417, 0>> : k \in 0..MaxTicks}

\* the eight random bytes as rv
GenRandSamples ==
  {Zero64, <<65535, 65535, 65535, 65535>>, <<52719, 35243, 17767, 291>>}

\* the state after load, and a state whose counter stands at 0xFFFFFFFE
GenInit ==
  /\ \/ /\ gen_state_last_ms = Zero64
        /\ gen_state_ctr = <<0, 0>>
        /\ gen_state_hi = Zero64
     \/ /\ gen_state_last_ms = <<0, 0, 417, 0>>
        /\ gen_state_ctr = <<65534, 65535>>
        /\ gen_state_hi \in {hi_from_rand(rv) : rv \in GenRandSamples}
  /\ gen_pc = "idle" /\ gen_now = Zero64
  /\ gen_prev = ZeroUuid /\ gen_last = ZeroUuid /\ gen_n = 0
  /\ MaskIdle /\ SipIdle /\ TxtIdle /\ PgIdle

\* PG_RETURN_POINTER(ret)
GenReturn(u) ==
  /\ gen_prev' = gen_last
  /\ gen_last' = u
  /\ gen_n' = gen_n + 1
  /\ gen_pc' = "idle"

\* one call, up to its return or to its entry into the overflow loop; now is
\* what current_unix_ms() returns, rv what fill_rand delivers
GenCall(now, rv) ==
  /\ gen_pc = "idle" /\ gen_n < MaxCalls
  /\ gen_now' = now
  /\ IF Lt64(gen_state_last_ms, now)
     THEN /\ gen_state_last_ms' = now
          /\ gen_state_ctr' = <<0, 0>>
          /\ gen_state_hi' = hi_from_rand(rv)
          /\ GenReturn(GenBuild(now, hi_from_rand(rv), <<0, 0>>))
     ELSE IF Lt64(now, gen_state_last_ms)
     THEN /\ UNCHANGED <<gen_state_last_ms, gen_state_ctr, gen_state_hi>>
          /\ GenReturn(GenBuild(clamp_backwards(now, gen_state_last_ms),
                                gen_state_hi, gen_state_ctr))
     ELSE /\ gen_state_ctr' = Inc32(gen_state_ctr)
          /\ UNCHANGED <<gen_state_last_ms, gen_state_hi>>
          /\ IF Inc32(gen_state_ctr) = <<0, 0>>
             THEN gen_pc' = "stall" /\ UNCHANGED <<gen_prev, gen_last, gen_n>>
             ELSE GenReturn(GenBuild(now, gen_state_hi, Inc32(gen_state_ctr)))
  /\ UNCHANGED <<maskVars, sipVars, txtVars, pgVars>>

\* a loop that sleeps but does not read the clock again: ms stays what it
\* was, the loop condition stays true
GenStall_no_reread(now, rv) ==
  /\ gen_pc = "stall"
  /\ gen_now' = gen_state_last_ms
  /\ UNCHANGED <<gen_state_last_ms, gen_state_ctr, gen_state_hi,
                 gen_pc, gen_prev, gen_last, gen_n>>
  /\ UNCHANGED <<maskVars, sipVars, txtVars, pgVars>>

\* one iteration of do { pg_usleep(100); ms = current_unix_ms(); }
\* while (ms <= gen_state_last_ms), and what follows the loop when it ends
GenStall(now, rv) ==
  /\ gen_pc = "stall"
  /\ gen_now' = now
  /\ IF Lt64(gen_state_last_ms, now)
     THEN /\ gen_state_last_ms' = now
          /\ gen_state_ctr' = <<0, 0>>
          /\ gen_state_hi' = hi_from_rand(rv)
          /\ GenReturn(GenBuild(now, hi_from_rand(rv), <<0, 0>>))
     ELSE UNCHANGED <<gen_state_last_ms, gen_state_ctr, gen_state_hi,
                      gen_pc, gen_prev, gen_last, gen_n>>
  /\ UNCHANGED <<maskVars, sipVars, txtVars, pgVars>>

GenNext ==
  \E now \in ClockSamples, rv \in GenRandSamples : GenCall(now, rv) \/ GenStall(now, rv)

SpecGen == GenInit /\ [][GenNext]_vars

\* a < b in memcmp order over the bytes lo..hi
LexLess(a, b, lo, hi) ==
  \E i \in lo..hi : a[i] < b[i] /\ \A j \in lo..(i - 1) : a[j] = b[j]

\* C2 as claimed: every identifier the generator returns is strictly greater,
\* in byte-wise order, than the one returned by the call before (stated for
\* the clock readings below 2^48, which the timestamp field can hold).
C2_StrictlyIncreasing ==
  (gen_n >= 2 /\ gen_state_last_ms[4] = 0) => LexLess(gen_prev, gen_last, 0, 15)

\* C2: a call whose clock reading lay before last_ms has returned the very
\* identifier the call before it returned.
C2_Repeated ==
  /\ gen_n >= 2 /\ gen_pc = "idle"
  /\ Lt64(gen_now, gen_state_last_ms)
  /\ gen_last = gen_prev

\* C10 as claimed: for any clock readings, the timestamp field of a returned
\* identifier is never below that of the identifier returned before.
C10_TimestampNeverDecreases ==
  gen_n >= 2 => ~LexLess(gen_last, gen_prev, 0, 5)

\* C10 as amended: while the clock readings taken over stay below 2^48, the
\* timestamp field of a returned identifier is never below that of the one
\* returned before, and a call whose reading lay before last_ms returns an
\* identifier carrying last_ms.
C10_TimestampKeptBelow2p48 ==
  (gen_pc = "idle" /\ gen_state_last_ms[4] = 0) =>
    /\ gen_n >= 2 => ~LexLess(gen_last, gen_prev, 0, 5)
    /\ (gen_n >= 1 /\ Lt64(gen_now, gen_state_last_ms))
         => [i \in 0..5 |-> gen_last[i]] = wr48be(gen_state_last_ms)

\* C10 witness: after a call at October 2026, a call read the clock as 0 and
\* returned an identifier with the earlier call's timestamp.
C10_Witness ==
  /\ gen_n >= 2 /\ gen_pc = "idle"
  /\ gen_now = Zero64
  /\ gen_state_last_ms[3] = 417 /\ gen_state_last_ms[4] = 0
  /\ [i \in 0..5 |-> gen_last[i]] = wr48be(gen_state_last_ms)
  /\ [i \in 0..5 |-> gen_last[i]] = [i \in 0..5 |-> gen_prev[i]]

\* the counter an identifier carries: its bytes 12..15, as two limbs
CtrOf(u) == <<u[15] + (256 * u[14]), u[13] + (256 * u[12])>>

\* b is a later millisecond than a
LaterMs(a, b) ==
  \E i \in 1..4 : b[i] > a[i] /\ \A j \in (i + 1)..4 : b[j] = a[j]

\* C11: a step that takes the counter from 0xFFFFFFFF to 0 and keeps last_ms
\* returns no identifier and enters the stall; a call that returns and keeps
\* last_ms does not lower the counter; a stalled call keeps last_ms until it
\* returns, and it returns only with a clock reading later than last_ms, an
\* identifier that carries this reading (its low 48 bits) and counter 0.
C11_NoWrapInSameMs ==
  [][ /\ (/\ gen_state_ctr = <<65535, 65535>> /\ gen_state_ctr' = <<0, 0>>
          /\ gen_state_last_ms' = gen_state_last_ms)
           => (gen_n' = gen_n /\ gen_pc' = "stall")
      /\ (gen_n' = gen_n + 1 /\ gen_state_last_ms' = gen_state_last_ms)
           => (\/ gen_state_ctr'[2] > gen_state_ctr[2]
               \/ /\ gen_state_ctr'[2] = gen_state_ctr[2]
                  /\ gen_state_ctr'[1] >= gen_state_ctr[1])
      /\ (gen_pc = "stall" /\ gen_n' = gen_n)
           => (gen_pc' = "stall" /\ gen_state_last_ms' = gen_state_last_ms
               /\ ~LaterMs(gen_state_last_ms, gen_now'))
      /\ (gen_pc = "stall" /\ gen_n' # gen_n)
           => (/\ gen_n' = gen_n + 1 /\ gen_pc' = "idle"
               /\ LaterMs(gen_state_last_ms, gen_now')
               /\ gen_state_last_ms' = gen_now'
               /\ gen_state_ctr' = <<0, 0>>
               /\ CtrOf(gen_last') = <<0, 0>>
               /\ [i \in 0..5 |-> gen_last'[i]] = wr48be(Low48(gen_now')))
    ]_vars

\* C11 witness: the identifier with counter 0xFFFFFFFF was returned, the next
\* call stalled, and it has returned an identifier with counter 0 and a later
\* timestamp.
C11_Witness ==
  /\ gen_pc = "idle" /\ gen_n >= 2
  /\ CtrOf(gen_prev) = <<65535, 65535>>
  /\ CtrOf(gen_last) = <<0, 0>> /\ gen_state_ctr = <<0, 0>>
  /\ LexLess(gen_prev, gen_last, 0, 5)

\* C20 as claimed: a call that reads a clock value below last_ms behaves as
\* the call that reads last_ms itself: last_ms is kept, the counter goes up by
\* one, and the call either stalls on the wrap or returns the identifier that
\* carries last_ms and the incremented counter.
C20_BackwardsAsEqual ==
  [][ (gen_pc = "idle" /\ Lt64(gen_now', gen_state_last_ms))
        => /\ gen_state_last_ms' = gen_state_last_ms
           /\ gen_state_ctr' = Inc32(gen_state_ctr)
           /\ \/ gen_pc' = "stall" /\ gen_n' = gen_n
              \/ /\ gen_n' = gen_n + 1
                 /\ gen_last' = GenBuild(gen_state_last_ms, gen_state_hi,
                                         Inc32(gen_state_ctr))
    ]_vars

\* C20, the case that diverges: a call read a clock value below last_ms and
\* returned an identifier that carries the counter of the identifier returned
\* before it, the stored counter being the one it was.
C20_CounterNotIncremented ==
  /\ gen_pc = "idle" /\ gen_n >= 2
  /\ Lt64(gen_now, gen_state_last_ms)
  /\ CtrOf(gen_last) = gen_state_ctr
  /\ gen_last = gen_prev

\* h < 2^42
Below2p42(h) == h[4] = 0 /\ h[3] < 1024

\* C21: a call that reads a clock value above last_ms leaves last_ms = now,
\* counter = 0 and a freshly drawn high_random, the low 42 bits of the eight
\* random bytes; and high_random is below 2^42 in every reachable state.
C21_AdvanceResetsState ==
  [][ /\ Below2p42(gen_state_hi) /\ Below2p42(gen_state_hi')
      /\ (gen_pc = "idle" /\ Lt64(gen_state_last_ms, gen_now'))
           => /\ gen_state_last_ms' = gen_now'
              /\ gen_state_ctr' = <<0, 0>>
              /\ \E rv \in GenRandSamples :
                   gen_state_hi' = <<rv[1], rv[2], rv[3] % 1024, 0>>
              /\ gen_n' = gen_n + 1 /\ gen_pc' = "idle"
    ]_vars

\* C21 witness: from a state with a non-zero counter a call read a later
\* clock value and drew random bytes that are all ones; the state holds that
\* reading, counter 0 and 42 one bits.
C21_Witness ==
  /\ gen_pc = "idle" /\ gen_n >= 1
  /\ gen_state_last_ms = gen_now /\ gen_now = <<1, 0, 417, 0>>
  /\ gen_state_ctr = <<0, 0>>
  /\ gen_state_hi = <<65535, 65535, 1023, 0>>
  /\ CtrOf(gen_last) = <<0, 0>>

\* bit j of V = (high_random << 32) | counter, 0 <= j <= 73
VBit(hi, ctr, j) ==
  IF j < 32 THEN (ctr[(j \div 16) + 1] \div Pow2(j % 16)) % 2
  ELSE (hi[((j - 32) \div 16) + 1] \div Pow2((j - 32) % 16)) % 2

RECURSIVE VBits(_, _, _, _)
\* the n bits of V from bit lo upwards, as a number
VBits(hi, ctr, lo, n) ==
  IF n = 0 THEN 0 ELSE VBit(hi, ctr, lo) + (2 * VBits(hi, ctr, lo + 1, n - 1))

\* C22: after a call has returned, the identifier it returned has the low 48
\* bits of last_ms in bytes 0..5 (big-endian), version nibble 7, variant bits
\* 10, and V = (high_random << 32) | counter of the state in its other bits:
\* bits 73..70 in the low nibble of byte 6, 69..62 in byte 7, 61..56 in the
\* low six bits of byte 8, 55..0 in bytes 9..15.
C22_BuiltFromState ==
  (gen_pc = "idle" /\ gen_n >= 1) =>
    /\ \A i \in 0..5 : gen_last[i] = ByteOf(gen_state_last_ms, 5 - i)
    /\ gen_last[6] = (7 * 16) + VBits(gen_state_hi, gen_state_ctr, 70, 4)
    /\ gen_last[7] = VBits(gen_state_hi, gen_state_ctr, 62, 8)
    /\ gen_last[8] = (2 * 64) + VBits(gen_state_hi, gen_state_ctr, 56, 6)
    /\ \A k \in 0..6 : gen_last[9 + k] = VBits(gen_state_hi, gen_state_ctr, 48 - (8 * k), 8)

\* C22 witness: a call returned from a state with counter 0xFFFFFFFF and a
\* high_random that has zero and one bits in every field: 0x167 89AB CDEF.
C22_Witness ==
  /\ gen_pc = "idle" /\ gen_n >= 1
  /\ gen_state_ctr = <<65535, 65535>>
  /\ gen_state_hi = <<52719, 35243, 359, 0>>
  /\ gen_state_last_ms = <<0, 0, 417, 0>>
  /\ gen_last[15] = 255 /\ gen_last[11] = 239 /\ gen_last[1] = 161

\* the iteration of the overflow loop in which the clock reports a value
\* above last_ms, so that the loop ends and the call returns
GenStallReturns ==
  \E now \in ClockSamples, rv \in GenRandSamples : GenStall(now, rv) /\ gen_pc' = "idle"

\* the generator with a clock that, while a call is in the overflow loop,
\* eventually reports a value above last_ms
SpecGenLive == GenInit /\ [][GenNext]_vars /\ WF_vars(GenStallReturns)

\* C23: a call whose counter increment wrapped stays in the loop, state
\* untouched, while the clock reports values at or below last_ms; with a clock
\* that eventually reports a value above last_ms it eventually returns, and
\* the state is then that of the now > last_ms case: last_ms the new
\* millisecond, counter 0, a fresh high_random.
C23_StallEndsWhenClockAdvances ==
  /\ (gen_pc = "stall") ~>
       (/\ gen_pc = "idle" /\ gen_state_ctr = <<0, 0>>
        /\ gen_state_last_ms = gen_now /\ Below2p42(gen_state_hi)
        /\ CtrOf(gen_last) = <<0, 0>>)
  /\ [][ gen_pc = "stall" =>
           IF Lt64(gen_state_last_ms, gen_now')
           THEN /\ gen_pc' = "idle" /\ gen_n' = gen_n + 1
                /\ gen_state_last_ms' = gen_now' /\ gen_state_ctr' = <<0, 0>>
                /\ \E rv \in GenRandSamples :
                     gen_state_hi' = <<rv[1], rv[2], rv[3] % 1024, 0>>
           ELSE /\ gen_pc' = "stall" /\ gen_n' = gen_n
                /\ UNCHANGED <<gen_state_last_ms, gen_state_ctr, gen_state_hi>>
       ]_vars

\* C23 witness: the call after the identifier with counter 0xFFFFFFFF went
\* into the loop at millisecond 417 * 2^32 and returned when the clock
\* reported 417 * 2^32 + 2.
C23_Witness ==
  /\ gen_pc = "idle" /\ CtrOf(gen_prev) = <<65535, 65535>>
  /\ Ts48(gen_prev) = <<1, 161, 0, 0, 0, 0>>
  /\ gen_now = <<2, 0, 417, 0>> /\ gen_state_last_ms = gen_now
  /\ gen_state_ctr = <<0, 0>> /\ Ts48(gen_last) = <<1, 161, 0, 0, 0, 2>>

(***************************************************************************)
(* The monotonic generator called from several backends at once, statement *)
(* by statement.  gen_state_last_ms, gen_state_ctr and gen_state_hi are    *)
(* static variables of the extension's shared object, which every backend  *)
(* process loads for itself ("Monotonic generator uses per-backend         *)
(* state"); a backend runs one statement at a time.                        *)
(***************************************************************************)
\* one set of statics for all backends, as threads of one process would have
InstanceOf_shared(p) == 1

\* the statics that backend process p reads and writes: its own
InstanceOf(p) == p

MaxBkCalls == 2

\* current_unix_ms() readings, in any order, and fill_rand deliveries
BkClock == {<<0, 0, 417, 0>>, <<1, 0, 417, 0>>}
BkRand  == {<<65535, 65535, 65535, 65535>>, <<52719, 35243, 17767, 291>>}
\* statics one call before the counter wraps, in millisecond 417 * 2^32
BkNearWrap ==
  [last_ms |-> <<0, 0, 417, 0>>, ctr |-> <<65535, 65535>>,
   hi |-> hi_from_rand(<<52719, 35243, 17767, 291>>)]

BkInit ==
  /\ bk_gen \in [Procs -> {BkFresh, BkNearWrap}]
  /\ bk_call = [p \in Procs |-> BkNoCall]
  /\ KeyIdle /\ StIdle /\ MaskIdle /\ SipIdle /\ TxtIdle /\ GenIdle

\* the statics as backend p sees them
BkStatics(p) == bk_gen[InstanceOf(p)]

\* a step of backend p: its call record becomes c, its statics become g;
\* every other backend that is inside a call has now been overlapped
BkStep(p, c, g) ==
  /\ bk_call' = [q \in Procs |->
                   IF q = p THEN c
                   ELSE IF bk_call[q].pc # "idle"
                        THEN [bk_call[q] EXCEPT !.ovl = TRUE]
                        ELSE bk_call[q]]
  /\ bk_gen' = [bk_gen EXCEPT ![InstanceOf(p)] = g]
  /\ UNCHANGED <<keyVars, stVars, maskVars, sipVars, txtVars, genVars>>

\* a step that only moves p to pc
BkGoto(p, pc) == BkStep(p, [bk_call[p] EXCEPT !.pc = pc], BkStatics(p))

\* ms = current_unix_ms()
BkEnter(p, now) ==
  /\ bk_call[p].pc = "idle" /\ bk_call[p].n < MaxBkCalls
  /\ BkStep(p, [bk_call[p] EXCEPT !.pc = "test_gt", !.ms = now, !.first = now,
                                   !.rv = Zero64, !.pre = BkStatics(p),
                                   !.ovl = \E q \in Procs \ {p} : bk_call[q].pc # "idle"],
             BkStatics(p))

\* if (ms > gen_state_last_ms)
BkTestGt(p) ==
  /\ bk_call[p].pc = "test_gt"
  /\ BkGoto(p, IF Lt64(BkStatics(p).last_ms, bk_call[p].ms) THEN "adv_ms" ELSE "test_lt")

\* else if (ms < gen_state_last_ms)
BkTestLt(p) ==
  /\ bk_call[p].pc = "test_lt"
  /\ BkGoto(p, IF Lt64(bk_call[p].ms, BkStatics(p).last_ms) THEN "clamp" ELSE "inc")

\* ms = gen_state_last_ms
BkClamp(p) ==
  /\ bk_call[p].pc = "clamp"
  /\ BkStep(p, [bk_call[p] EXCEPT !.pc = "pack",
                                   !.ms = clamp_backwards(@, BkStatics(p).last_ms)],
             BkStatics(p))

\* gen_state_last_ms = ms
BkAdvMs(p) ==
  /\ bk_call[p].pc = "adv_ms"
  /\ BkStep(p, [bk_call[p] EXCEPT !.pc = "adv_ctr"],
             [BkStatics(p) EXCEPT !.last_ms = bk_call[p].ms])

\* gen_state_ctr = 0
BkAdvCtr(p) ==
  /\ bk_call[p].pc = "adv_ctr"
  /\ BkStep(p, [bk_call[p] EXCEPT !.pc = "adv_hi"],
             [BkStatics(p) EXCEPT !.ctr = <<0, 0>>])

\* fill_rand(r, 8); gen_state_hi = rv & ((1ULL << 42) - 1ULL)
BkAdvHi(p, rv) ==
  /\ bk_call[p].pc = "adv_hi"
  /\ BkStep(p, [bk_call[p] EXCEPT !.pc = "pack", !.rv = rv],
             [BkStatics(p) EXCEPT !.hi = hi_from_rand(rv)])

\* gen_state_ctr++
BkInc(p) ==
  /\ bk_call[p].pc = "inc"
  /\ BkStep(p, [bk_call[p] EXCEPT !.pc = "inc_test"],
             [BkStatics(p) EXCEPT !.ctr = Inc32(@)])

\* if (gen_state_ctr == 0)
BkIncTest(p) ==
  /\ bk_call[p].pc = "inc_test"
  /\ BkGoto(p, IF BkStatics(p).ctr = <<0, 0>> THEN "sleep" ELSE "pack")

\* do { pg_usleep(100); ms = current_unix_ms(); } while (ms <= gen_state_last_ms)
BkSleep(p, now) ==
  /\ bk_call[p].pc = "sleep"
  /\ BkStep(p, [bk_call[p] EXCEPT
                  !.ms = now,
                  !.pc = IF Lt64(BkStatics(p).last_ms, now) THEN "adv_ms" ELSE "sleep"],
             BkStatics(p))

\* v = (hi << K) | ctr; uuidv7_build_from_suffix(ms, suffix, &out); return
BkPack(p) ==
  /\ bk_call[p].pc = "pack"
  /\ BkStep(p, [bk_call[p] EXCEPT
                  !.pc = "idle", !.n = @ + 1, !.post = BkStatics(p),
                  !.ret = GenBuild(bk_call[p].ms, BkStatics(p).hi, BkStatics(p).ctr)],
             BkStatics(p))

BkNext ==
  \E p \in Procs :
    \/ \E now \in BkClock : BkEnter(p, now) \/ BkSleep(p, now)
    \/ \E rv \in BkRand : BkAdvHi(p, rv)
    \/ BkTestGt(p) \/ BkTestLt(p) \/ BkClamp(p)
    \/ BkAdvMs(p) \/ BkAdvCtr(p) \/ BkInc(p) \/ BkIncTest(p) \/ BkPack(p)

SpecGenConc == BkInit /\ [][BkNext]_vars

\* the statics that a call leaves, and the identifier it returns, when it
\* runs from the statics pre to its end with nothing in between: first is
\* its first clock reading, ms its last, rv what fill_rand delivered
BkAlone(pre, first, ms, rv) ==
  IF Lt64(pre.last_ms, first)
  THEN [st |-> [last_ms |-> first, ctr |-> <<0, 0>>, hi |-> hi_from_rand(rv)],
        id |-> GenBuild(first, hi_from_rand(rv), <<0, 0>>)]
  ELSE IF Lt64(first, pre.last_ms)
  THEN [st |-> pre, id |-> GenBuild(pre.last_ms, pre.hi, pre.ctr)]
  ELSE IF Inc32(pre.ctr) # <<0, 0>>
  THEN [st |-> [pre EXCEPT !.ctr = Inc32(pre.ctr)],
        id |-> GenBuild(first, pre.hi, Inc32(pre.ctr))]
  ELSE [st |-> [last_ms |-> ms, ctr |-> <<0, 0>>, hi |-> hi_from_rand(rv)],
        id |-> GenBuild(ms, hi_from_rand(rv), <<0, 0>>)]

\* C24: a call of the generator is one atomic read-modify-write of last_ms,
\* counter and high_random: no two calls are ever inside the function on the
\* same statics, and whatever the other backends did meanwhile, a call
\* returns the identifier, and leaves the statics, that it would have with
\* nothing in between.
C24_CallIsAtomic ==
  /\ \A p \in Procs, q \in Procs :
       (p # q /\ bk_call[p].pc # "idle" /\ bk_call[q].pc # "idle")
         => InstanceOf(p) # InstanceOf(q)
  /\ \A p \in Procs :
       (bk_call[p].pc = "idle" /\ bk_call[p].n >= 1)
         => /\ bk_call[p].post =
                 BkAlone(bk_call[p].pre, bk_call[p].first, bk_call[p].ms, bk_call[p].rv).st
            /\ bk_call[p].ret =
                 BkAlone(bk_call[p].pre, bk_call[p].first, bk_call[p].ms, bk_call[p].rv).id

\* C24 witness: two backends were inside the generator at the same time and
\* both have returned; backend 1 took the branch that writes all three
\* statics, backend 2 incremented its counter to zero, slept and then wrote
\* all three.
C24_Witness ==
  /\ \A p \in Procs : bk_call[p].pc = "idle" /\ bk_call[p].n = 1 /\ bk_call[p].ovl
  /\ bk_call[1].pre = BkFresh /\ bk_call[1].post.last_ms = <<1, 0, 417, 0>>
  /\ bk_call[1].post.hi = <<65535, 65535, 1023, 0>>
  /\ bk_call[2].pre = BkNearWrap /\ bk_call[2].first = <<0, 0, 417, 0>>
  /\ bk_call[2].post = [last_ms |-> <<1, 0, 417, 0>>, ctr |-> <<0, 0>>,
                        hi |-> <<52719, 35243, 359, 0>>]

(***************************************************************************)
(* The extension's key: parse_key_from_guc, key_from_bytea                 *)
(***************************************************************************)
\* hex_nibble without the + 10 of the lowercase letters
hex_nibble_lower_off(c) ==
  IF c >= 48 /\ c <= 57 THEN c - 48
  ELSE IF c >= 97 /\ c <= 102 THEN c - 97
  ELSE IF c >= 65 /\ c <= 70 THEN c - 65 + 10
  ELSE -1

\* hex_nibble(c)
hex_nibble(c) ==
  IF c >= 48 /\ c <= 57 THEN c - 48
  ELSE IF c >= 97 /\ c <= 102 THEN c - 97 + 10
  ELSE IF c >= 65 /\ c <= 70 THEN c - 65 + 10
  ELSE -1

\* isspace(c) in the C locale: space, \t, \n, \v, \f, \r
IsSpace(c) == c = 32 \/ (9 <= c /\ c <= 13)

\* compact[]: the characters of the setting that are no spaces
StripSpaces(s) == SelectSeq(s, LAMBDA c : ~IsSpace(c))

\* a parse_hex_bytes_exact that tests only the first digit of each byte
parse_hex_bytes_high_only(s, off, n) ==
  [ok  |-> \A i \in 0..(n - 1) : hex_nibble(s[off + (2 * i) + 1]) >= 0,
   out |-> [i \in 0..(n - 1) |->
             ((hex_nibble(s[off + (2 * i) + 1]) * 16) + hex_nibble(s[off + (2 * i) + 2])) % 256]]

\* parse_hex_bytes_exact(s + off, n, out): ok and out[0..n-1]; s is a
\* sequence, s[off + k + 1] the character at C offset off + k
parse_hex_bytes_exact(s, off, n) ==
  [ok  |-> \A i \in 0..(n - 1) :
             /\ hex_nibble(s[off + (2 * i) + 1]) >= 0
             /\ hex_nibble(s[off + (2 * i) + 2]) >= 0,
   out |-> [i \in 0..(n - 1) |->
             (hex_nibble(s[off + (2 * i) + 1]) * 16) + hex_nibble(s[off + (2 * i) + 2])]]

\* n >= 2 && p[0] == '0' && (p[1] == 'x' || p[1] == 'X') for p = s + off
Has0x(s, off, n) ==
  n >= 2 /\ s[off + 1] = 48 /\ (s[off + 2] = 120 \/ s[off + 2] = 88)

\* what a parse that returned false leaves behind; the caller raises
KeyNone == [ok |-> FALSE, key |-> [k0 |-> Zero64, k1 |-> Zero64]]

\* the two halves at C offsets p0 and p1 of c, each 16 hex digits read as
\* 8 bytes and then as a little-endian uint64_t
ParseHalves(c, p0, p1) ==
  IF ~parse_hex_bytes_exact(c, p0, 8).ok \/ ~parse_hex_bytes_exact(c, p1, 8).ok
  THEN KeyNone
  ELSE [ok  |-> TRUE,
        key |-> [k0 |-> rd64le(parse_hex_bytes_exact(c, p0, 8).out, 0),
                 k1 |-> rd64le(parse_hex_bytes_exact(c, p1, 8).out, 0)]]

\* the branch if (colon): c is compact[], n0 the offset of its first ':'
ParseColonForm(c, n0) ==
  LET n1 == Len(c) - n0 - 1
      x0 == IF Has0x(c, 0, n0) THEN 2 ELSE 0
      x1 == IF Has0x(c, n0 + 1, n1) THEN 2 ELSE 0
  IN  IF n0 - x0 # 16 \/ n1 - x1 # 16 THEN KeyNone
      ELSE ParseHalves(c, x0, n0 + 1 + x1)

\* the branch without a colon: c is compact[]
ParseCompactForm(c) ==
  LET x == IF Has0x(c, 0, Len(c)) THEN 2 ELSE 0
  IN  IF Len(c) - x # 32 THEN KeyNone
      ELSE ParseHalves(c, x, x + 16)

\* char compact[129]
CompactSize == 129

\* the largest index of compact[] that parse_key_from_guc writes for the
\* setting guc: the L of compact[L] = 0 after the copying loop, which has no
\* test of L against the size; -1 when it returns before the loop
CompactTop(guc) ==
  IF guc.null \/ guc.s = <<>> THEN -1 ELSE Len(StripSpaces(guc.s))

\* compact[] was written behind its last element: the behaviour is undefined
CompactOverrun(guc) == CompactTop(guc) >= CompactSize

\* what a build can do once the frame was overwritten: go on to return false
\* as if nothing had happened, end the backend (stack protector, fault on
\* return), or return true with a key that is not the setting's
UbOutcomes == {"returns_false", "crash", "returns_true_zero", "returns_true_other"}
UbResult(o) ==
  CASE o = "returns_true_zero"  -> [ok |-> TRUE, key |-> KeyNone.key]
    [] o = "returns_true_other" -> [ok |-> TRUE, key |-> KeyWrong]
    [] OTHER                    -> KeyNone

\* parse_key_from_guc(&key): ok is the value returned, key is *key
parse_key_from_guc(guc) ==
  IF guc.null \/ guc.s = <<>> THEN KeyNone
  ELSE IF CompactOverrun(guc) THEN UbResult(key_ub)
  ELSE IF \E i \in 1..Len(StripSpaces(guc.s)) : StripSpaces(guc.s)[i] = 58
  THEN ParseColonForm(StripSpaces(guc.s),
         (CHOOSE i \in 1..Len(StripSpaces(guc.s)) :
            /\ StripSpaces(guc.s)[i] = 58
            /\ \A j \in 1..(i - 1) : StripSpaces(guc.s)[j] # 58) - 1)
  ELSE ParseCompactForm(StripSpaces(guc.s))

\* how a caller of key_from_guc_or_error fails: ereport(ERROR) after a parse
\* that returned false, or no return at all
KeyFailure(guc) ==
  IF CompactOverrun(guc) /\ key_ub = "crash" THEN "crash" ELSE "key"

\* key_from_bytea(b): require_len(b, 16) raises unless ok; p[i] is b[i + 1]
key_from_bytea(b) ==
  IF Len(b) # 16 THEN KeyNone
  ELSE [ok  |-> TRUE,
        key |-> [k0 |-> rd64le([i \in 0..15 |-> b[i + 1]], 0),
                 k1 |-> rd64le([i \in 0..15 |-> b[i + 1]], 8)]]

(***************************************************************************)
(* Timestamp conversions: int64 / uint64_t on four 16-bit limbs            *)
(***************************************************************************)
UNIX_EPOCH_SECS_FROM_Y2000 == 946684800

\* x * m modulo 2^64 for 0 <= m <= 1000
MulSmall64(x, m) ==
  LET p1 == x[1] * m
      p2 == (x[2] * m) + (p1 \div 65536)
      p3 == (x[3] * m) + (p2 \div 65536)
      p4 == (x[4] * m) + (p3 \div 65536)
  IN  <<p1 % 65536, p2 % 65536, p3 % 65536, p4 % 65536>>

\* x / d on a non-negative x, for 0 < d <= 1000
DivSmall64(x, d) ==
  LET r4 == x[4] % d
      r3 == ((r4 * 65536) + x[3]) % d
      r2 == ((r3 * 65536) + x[2]) % d
  IN  <<((r2 * 65536) + x[1]) \div d, ((r3 * 65536) + x[2]) \div d,
        ((r4 * 65536) + x[3]) \div d, x[4] \div d>>

\* x - y modulo 2^64
Sub64(x, y) ==
  Add64(Add64(x, <<65535 - y[1], 65535 - y[2], 65535 - y[3], 65535 - y[4]>>),
        <<1, 0, 0, 0>>)

\* x < 0 for an int64 x
IsNeg64(x) == x[4] >= 32768

\* UNIX_EPOCH_SECS_FROM_Y2000 * 1000000LL
EpochOffsetUs ==
  MulSmall64(MulSmall64(<<UNIX_EPOCH_SECS_FROM_Y2000 % 65536,
                          UNIX_EPOCH_SECS_FROM_Y2000 \div 65536, 0, 0>>, 1000), 1000)

\* unix_ms_to_timestamptz(ms)
unix_ms_to_timestamptz(ms) == Sub64(MulSmall64(ms, 1000), EpochOffsetUs)

\* a timestamptz_to_unix_ms that takes the PostgreSQL epoch for the Unix one
timestamptz_to_unix_ms_pg_epoch(ts) ==
  IF IsNeg64(ts) THEN Zero64 ELSE DivSmall64(ts, 1000)

\* timestamptz_to_unix_ms(ts)
timestamptz_to_unix_ms(ts) ==
  IF IsNeg64(Add64(ts, EpochOffsetUs)) THEN Zero64
  ELSE DivSmall64(Add64(ts, EpochOffsetUs), 1000)

(***************************************************************************)
(* The uuid47 type: entry points, presentation, introspection              *)
(* A handler is an operator giving [err, val]: err is "none" and val what  *)
(* it returns, or err names the ereport(ERROR) it raised.                  *)
(***************************************************************************)
Raise(e) == [err |-> e, val |-> ZeroUuid]
Return(v) == [err |-> "none", val |-> v]

\* uuid_version_from_bytes(b)
uuid_version_from_bytes(b) == (b[6] \div 16) % 16

\* uuid47_in, after the core uuid_in has parsed the text into parsed->data
uuid47_in(parsed, guc) ==
  IF uuid_version_from_bytes(parsed) = 7 THEN Return(parsed)
  ELSE IF uuid_version_from_bytes(parsed) = 4
  THEN IF ~parse_key_from_guc(guc).ok THEN Raise(KeyFailure(guc))
       ELSE Return(uuidv47_decode_v4facade(parsed, parse_key_from_guc(guc).key))
  ELSE Raise("version")

\* uuid47_recv on the 16 bytes copied from the message
uuid47_recv(data, guc) ==
  IF uuid_version_from_bytes(data) = 4
  THEN IF ~parse_key_from_guc(guc).ok THEN Raise(KeyFailure(guc))
       ELSE Return(uuidv47_decode_v4facade(data, parse_key_from_guc(guc).key))
  ELSE IF uuid_version_from_bytes(data) # 7 THEN Raise("version")
  ELSE Return(data)

\* uuid_to_uuid47(in)
uuid_to_uuid47(uin, guc) ==
  IF uuid_version_from_bytes(uin) = 7 THEN Return(uin)
  ELSE IF uuid_version_from_bytes(uin) = 4
  THEN IF ~parse_key_from_guc(guc).ok THEN Raise(KeyFailure(guc))
       ELSE Return(uuidv47_decode_v4facade(uin, parse_key_from_guc(guc).key))
  ELSE Raise("version")

\* uuid_to_uuid47_with_key(in, keyb)
uuid_to_uuid47_with_key(uin, keyb) ==
  IF ~key_from_bytea(keyb).ok THEN Raise("keylen")
  ELSE IF uuid_version_from_bytes(uin) = 7 THEN Return(uin)
  ELSE IF uuid_version_from_bytes(uin) = 4
  THEN Return(uuidv47_decode_v4facade(uin, key_from_bytea(keyb).key))
  ELSE Raise("version")

\* fill_rand(suffix, 10); suffix[0] &= 0x0F; suffix[2] &= 0x3F
MaskSuffix(r) ==
  [k \in 0..9 |-> IF k = 0 THEN r[0] % 16 ELSE IF k = 2 THEN r[2] % 64 ELSE r[k]]

\* uuid47_generate(): ms is current_unix_ms(), r the ten random bytes
uuid47_generate(ms, r) == Return(uuidv7_build_from_suffix(ms, MaskSuffix(r)))

\* uuid47_generate_at(ts)
uuid47_generate_at(ts, r) ==
  Return(uuidv7_build_from_suffix(timestamptz_to_unix_ms(ts), MaskSuffix(r)))

\* uuid47_out(in): val is tmp.data, the bytes the core uuid_out prints
uuid47_out(in, guc) ==
  IF ~parse_key_from_guc(guc).ok THEN Raise(KeyFailure(guc))
  ELSE Return(uuidv47_encode_v4facade(in, parse_key_from_guc(guc).key))

\* uuid47_send(in): the 16 bytes put into the message
uuid47_send(in, guc) == Return(in)

\* uuid47_to_uuid(in)
uuid47_to_uuid(in, guc) ==
  IF ~parse_key_from_guc(guc).ok THEN Raise(KeyFailure(guc))
  ELSE Return(uuidv47_encode_v4facade(in, parse_key_from_guc(guc).key))

\* uuid47_to_uuid_with_key(in, keyb)
uuid47_to_uuid_with_key(in, keyb) ==
  IF ~key_from_bytea(keyb).ok THEN Raise("keylen")
  ELSE Return(uuidv47_encode_v4facade(in, key_from_bytea(keyb).key))

\* uuid47_as_v7(in)
uuid47_as_v7(in) == Return(in)

\* uuid47_explain(in): val is the facade column
uuid47_explain(in, guc) ==
  IF ~parse_key_from_guc(guc).ok THEN Raise(KeyFailure(guc))
  ELSE Return(uuidv47_encode_v4facade(in, parse_key_from_guc(guc).key))

\* uuid47_timestamp(in)
uuid47_timestamp(in) == unix_ms_to_timestamptz(rd48be(in, 0))

(***************************************************************************)
(* Sessions that set uuid47.key and call the keyed operations              *)
(***************************************************************************)
\* one hex digit of a written key, lowercase or uppercase
KeyHexDigit(d, up) == IF d < 10 THEN 48 + d ELSE (IF up THEN 55 ELSE 87) + d

RECURSIVE KeyHex(_, _)
\* the bytes b written as hex digits, two per byte, in byte order
KeyHex(b, up) ==
  IF b = <<>> THEN <<>>
  ELSE <<KeyHexDigit(Head(b) \div 16, up), KeyHexDigit(Head(b) % 16, up)>>
         \o KeyHex(Tail(b), up)

\* the ways the extension's comment and tests write 16 key bytes as a setting
KeyForms == {"colon", "colon0x", "colon0Xleft", "compact", "compact0x", "upper", "spaced"}
KeyText(b, f) ==
  CASE f = "colon"       -> KeyHex(SubSeq(b, 1, 8), FALSE) \o <<58>> \o KeyHex(SubSeq(b, 9, 16), FALSE)
    [] f = "colon0x"     -> <<48, 120>> \o KeyHex(SubSeq(b, 1, 8), FALSE) \o <<58>>
                              \o <<48, 120>> \o KeyHex(SubSeq(b, 9, 16), FALSE)
    [] f = "colon0Xleft" -> <<48, 88>> \o KeyHex(SubSeq(b, 1, 8), FALSE) \o <<58>>
                              \o KeyHex(SubSeq(b, 9, 16), FALSE)
    [] f = "compact"     -> KeyHex(b, FALSE)
    [] f = "compact0x"   -> <<48, 120>> \o KeyHex(b, FALSE)
    [] f = "upper"       -> KeyHex(SubSeq(b, 1, 8), TRUE) \o <<58>> \o KeyHex(SubSeq(b, 9, 16), TRUE)
    [] f = "spaced"      -> <<32>> \o KeyHex(SubSeq(b, 1, 8), FALSE) \o <<32, 58, 9>>
                              \o KeyHex(SubSeq(b, 9, 16), FALSE) \o <<10>>

\* the tests' key bytes 00 11 22 .. ff, and 01 23 45 .. ef fe dc .. 10
RawTest  == <<0, 17, 34, 51, 68, 85, 102, 119, 136, 153, 170, 187, 204, 221, 238, 255>>
RawOther == <<1, 35, 69, 103, 137, 171, 205, 239, 254, 220, 186, 152, 118, 84, 50, 16>>
RawKeys  == {RawTest, RawOther}

DropAt(t, i) == SubSeq(t, 1, i - 1) \o SubSeq(t, i + 1, Len(t))
InsertAt(t, i, c) == SubSeq(t, 1, i - 1) \o <<c>> \o SubSeq(t, i, Len(t))

\* settings that are none of the forms: too short, too long, a letter that
\* is no hex digit, a prefix that eats two digits, a second colon, blanks
BadTexts ==
  {<<32, 32>>,
   DropAt(KeyText(RawTest, "colon"), 1),
   InsertAt(KeyText(RawTest, "colon"), 1, 48),
   DropAt(KeyText(RawTest, "colon"), 33),
   InsertAt(KeyText(RawTest, "colon0x"), 37, 48),
   DropAt(KeyText(RawTest, "compact"), 32),
   InsertAt(KeyText(RawTest, "compact"), 17, 48),
   [KeyText(RawTest, "colon") EXCEPT ![3] = 103],
   [KeyText(RawTest, "colon") EXCEPT ![33] = 71],
   [KeyText(RawTest, "compact") EXCEPT ![20] = 103],
   [KeyText(RawOther, "colon") EXCEPT ![2] = 120],
   [KeyText(RawTest, "colon") EXCEPT ![20] = 58],
   [KeyText(RawTest, "colon") EXCEPT ![5] = 32],
   [KeyText(RawTest, "compact0x") EXCEPT ![1] = 120]}

\* the character c, n times
Rep(c, n) == [i \in 1..n |-> c]

\* settings that fill compact[] to its last element and no further: 128
\* digits, and the same behind 72 blanks (200 characters)
FullTexts == {Rep(48, 128), Rep(32, 72) \o Rep(48, 128)}
\* settings with more than 128 characters that are no blanks: 129 digits, and
\* the tests' key in colon form followed by blanks and 167 more digits (200)
LongTexts ==
  {Rep(48, 129), KeyText(RawTest, "colon") \o Rep(32, 10) \o Rep(102, 167)}

GucOf(t) == [null |-> FALSE, s |-> t]
GucNull  == [null |-> TRUE, s |-> <<>>]
\* bytea arguments that are not 16 bytes long
BadByteas == {SubSeq(RawTest, 1, 15), RawTest \o <<0>>}

\* the values the keyed operations are called on: a stored sortable value
\* (the tests' craft_v7 sample) and a version-4 input (the tests' literal
\* aaaaaaaa-bbbb-4ccc-dddd-eeeeeeeeeeee)
KeyProbeV7 == craft_v7(<<39612, 22136, 4660, 0>>, 2748, <<52719, 35243, 17767, 291>>)
KeyProbeV4 ==
  [i \in 0..15 |-> <<170, 170, 170, 170, 187, 187, 76, 204, 221, 221,
                     238, 238, 238, 238, 238, 238>>[i + 1]]

MaxKeyCalls == 2

KeyInit ==
  /\ \/ \E r \in RawKeys, f \in KeyForms :
          uuid47_key_guc = GucOf(KeyText(r, f)) /\ key_bytea = r
     \/ uuid47_key_guc = GucOf(KeyText(RawTest, "colon")) /\ key_bytea = RawOther
     \/ uuid47_key_guc \in {GucOf(t) : t \in BadTexts} \cup {GucNull, GucOf(<<>>)}
        /\ key_bytea \in BadByteas
     \/ uuid47_key_guc \in {GucOf(t) : t \in FullTexts \cup LongTexts}
        /\ key_bytea = RawTest
     \/ uuid47_key_guc = GucNull /\ key_bytea = <<>>
  /\ key_calls = <<>>
  /\ key_top = -1
  /\ key_ub \in (IF CompactOverrun(uuid47_key_guc) THEN UbOutcomes ELSE {"none"})
  /\ StIdle /\ BkIdle /\ MaskIdle /\ SipIdle /\ TxtIdle /\ GenIdle

\* what a call leaves: the function, whether it failed, the key it parsed
\* (for the two parsers), the value it returned (for the operations)
KeyCall(fn, err, key, val) == [fn |-> fn, err |-> err, key |-> key, val |-> val]
\* top is the largest index of compact[] the call wrote, -1 if it wrote none
KeyRecord(c, top) ==
  /\ Len(key_calls) < MaxKeyCalls
  /\ key_calls' = Append(key_calls, c)
  /\ key_top' = IF top > key_top THEN top ELSE key_top
  /\ UNCHANGED <<uuid47_key_guc, key_bytea, key_ub, stVars, bkVars, maskVars,
                 sipVars, txtVars, genVars>>

\* parse_key_from_guc(&k)
KeyParseGuc ==
  KeyRecord(KeyCall("parse_key_from_guc",
                    IF parse_key_from_guc(uuid47_key_guc).ok THEN "none"
                    ELSE IF KeyFailure(uuid47_key_guc) = "crash" THEN "crash"
                    ELSE "false",
                    parse_key_from_guc(uuid47_key_guc).key, ZeroUuid),
            CompactTop(uuid47_key_guc))

\* key_from_bytea(keyb)
KeyFromBytea ==
  KeyRecord(KeyCall("key_from_bytea",
                    IF key_from_bytea(key_bytea).ok THEN "none" ELSE "keylen",
                    key_from_bytea(key_bytea).key, ZeroUuid), -1)

\* an operation fn that returned r; top as for KeyRecord
KeyOp(fn, r, top) == KeyRecord(KeyCall(fn, r.err, KeyNone.key, r.val), top)
\* an operation that starts with key_from_guc_or_error()
KeyGucOp(fn, r) == KeyOp(fn, r, CompactTop(uuid47_key_guc))

KeyOut      == KeyGucOp("uuid47_out", uuid47_out(KeyProbeV7, uuid47_key_guc))
KeyToUuid   == KeyGucOp("uuid47_to_uuid", uuid47_to_uuid(KeyProbeV7, uuid47_key_guc))
KeyIn       == KeyGucOp("uuid47_in", uuid47_in(KeyProbeV4, uuid47_key_guc))
KeyExplain  == KeyGucOp("uuid47_explain", uuid47_explain(KeyProbeV7, uuid47_key_guc))
KeyToUuidWithKey ==
  KeyOp("uuid47_to_uuid_with_key", uuid47_to_uuid_with_key(KeyProbeV7, key_bytea), -1)

KeyNext ==
  \/ KeyParseGuc \/ KeyFromBytea
  \/ KeyOut \/ KeyToUuid \/ KeyIn \/ KeyExplain \/ KeyToUuidWithKey

SpecKey == KeyInit /\ [][KeyNext]_vars

\* eight bytes b[off + 1 .. off + 8] of a sequence as a little-endian uint64_t
LE64(b, off) ==
  <<b[off + 1] + (256 * b[off + 2]), b[off + 3] + (256 * b[off + 4]),
    b[off + 5] + (256 * b[off + 6]), b[off + 7] + (256 * b[off + 8])>>

KeyCallsOf(fn) == {i \in 1..Len(key_calls) : key_calls[i].fn = fn}

\* the setting holds the hex digits of the 16 bytes of the bytea argument, in
\* one of the written forms
GucMatchesBytea ==
  /\ Len(key_bytea) = 16
  /\ \E f \in KeyForms : uuid47_key_guc = GucOf(KeyText(key_bytea, f))

\* C15: when the setting holds the hex digits of the 16 bytes b (colon form
\* with or without 0x per half, or the 32-digit form), parse_key_from_guc and
\* key_from_bytea(b) both give k0 = bytes 0..7 and k1 = bytes 8..15 of b, each
\* little-endian; and uuid47_to_uuid_with_key(u, b) returns what
\* uuid47_to_uuid(u) returns.
C15_SameKeyFromEveryEncoding ==
  GucMatchesBytea =>
    /\ \A i \in KeyCallsOf("parse_key_from_guc") \cup KeyCallsOf("key_from_bytea") :
         /\ key_calls[i].err = "none"
         /\ key_calls[i].key = [k0 |-> LE64(key_bytea, 0), k1 |-> LE64(key_bytea, 8)]
    /\ \A i \in KeyCallsOf("uuid47_to_uuid_with_key"), j \in KeyCallsOf("uuid47_to_uuid") :
         /\ key_calls[i].err = "none" /\ key_calls[j].err = "none"
         /\ key_calls[i].val = key_calls[j].val
         /\ IsFacade(key_calls[i].val)

\* C15 witness: with the setting in the 32-digit form of the tests' key
\* bytes, uuid47_to_uuid_with_key on those bytes and uuid47_to_uuid on the
\* same stored value returned the same facade, which is not the stored value
\* with its markers changed.
C15_Witness ==
  /\ uuid47_key_guc = GucOf(KeyText(RawTest, "compact")) /\ key_bytea = RawTest
  /\ Len(key_calls) = 2
  /\ key_calls[1].fn = "uuid47_to_uuid_with_key" /\ key_calls[2].fn = "uuid47_to_uuid"
  /\ key_calls[1].val = key_calls[2].val
  /\ IsFacade(key_calls[1].val)
  /\ Ts48(key_calls[1].val) # Ts48(KeyProbeV7)

\* t[a..b] are hex digits, of either case
HexRun(t, a, b) == \A i \in a..b : IsHexChar(t[i])
\* "0x" or "0X" at t[i], t[i + 1]
PrefixAt(t, i) == t[i] = 48 /\ t[i + 1] \in {120, 88}
\* t is H16:H16 with an optional 0x before each half, or H32 with an optional
\* 0x before it, and nothing else
IsKeyText(t) ==
  \/ \E x0 \in {0, 2}, x1 \in {0, 2} :
       /\ Len(t) = 33 + x0 + x1
       /\ x0 = 2 => PrefixAt(t, 1)
       /\ HexRun(t, x0 + 1, x0 + 16)
       /\ t[x0 + 17] = 58
       /\ x1 = 2 => PrefixAt(t, x0 + 18)
       /\ HexRun(t, x0 + x1 + 18, x0 + x1 + 33)
  \/ \E x \in {0, 2} :
       /\ Len(t) = 32 + x
       /\ x = 2 => PrefixAt(t, 1)
       /\ HexRun(t, x + 1, x + 32)
\* t without its whitespace characters
NoBlanks(t) == SelectSeq(t, LAMBDA c : c \notin {9, 10, 11, 12, 13, 32})

\* the operations that take their key from the setting
GucKeyed == {"uuid47_out", "uuid47_to_uuid", "uuid47_in", "uuid47_explain"}

\* every call made so far failed, with nothing returned, if bad is true for
\* its key source (the setting, or the bytea argument)
FailsWhen(badGuc, badBytea) ==
  \A i \in 1..Len(key_calls) :
    /\ (key_calls[i].fn = "parse_key_from_guc" /\ badGuc) => key_calls[i].err = "false"
    /\ (key_calls[i].fn \in GucKeyed /\ badGuc)
         => (key_calls[i].err = "key" /\ key_calls[i].val = ZeroUuid)
    /\ (key_calls[i].fn \in {"key_from_bytea", "uuid47_to_uuid_with_key"} /\ badBytea)
         => (key_calls[i].err = "keylen" /\ key_calls[i].val = ZeroUuid)

C16_MalformedKeyFailsBlanksIgnored ==
  CompactOverrun(uuid47_key_guc) \/
  /\ FailsWhen(uuid47_key_guc.null \/ ~IsKeyText(NoBlanks(uuid47_key_guc.s)),
               Len(key_bytea) # 16)
  /\ (~uuid47_key_guc.null /\ IsKeyText(NoBlanks(uuid47_key_guc.s)))
       => \A i \in 1..Len(key_calls) :
            key_calls[i].fn \in GucKeyed \cup {"parse_key_from_guc"}
              => key_calls[i].err = "none"

\* C16, a case where the statement holds: the setting's first half is 16
\* hex digits and its second half ends in the letter G; uuid47_out raised the
\* key error and returned nothing, and uuid47_to_uuid_with_key raised on a
\* 15-byte key.
C16_Witness ==
  /\ uuid47_key_guc = GucOf([KeyText(RawTest, "colon") EXCEPT ![33] = 71])
  /\ Len(key_bytea) = 15
  /\ Len(key_calls) = 2
  /\ key_calls[1] = KeyCall("uuid47_out", "key", KeyNone.key, ZeroUuid)
  /\ key_calls[2] = KeyCall("uuid47_to_uuid_with_key", "keylen", KeyNone.key, ZeroUuid)

C29_CompactWritesInBounds ==
  key_top <= CompactSize - 1

\* C29, the case that diverges: the setting is 129 digits; the loop copied
\* them to compact[0..128] and the NUL was written to compact[129].
C29_NulBehindCompact ==
  /\ uuid47_key_guc = GucOf(Rep(48, CompactSize))
  /\ Len(key_calls) = 1 /\ key_calls[1].fn = "parse_key_from_guc"
  /\ key_top = CompactSize

(***************************************************************************)
(* A value of type uuid47: admitted by an entry point, stored, and handed  *)
(* out by a presentation function                                          *)
(***************************************************************************)
\* the 16 bytes a client sends or casts: the tests' sortable values under
\* each pair of version nibble and variant bits
StMarkers == MarkerSamples \cup {<<7, 0>>, <<7, 3>>, <<4, 3>>}
StInputs  == {WithMarkers(u, m[1], m[2]) : u \in SortableSamples, m \in StMarkers}
\* current_unix_ms() readings: the tests' 2024-01-02 03:04:05+00, and 2^48 + 5
StClock   == {<<55432, 51232, 396, 0>>, <<5, 0, 0, 1>>}
\* the ten bytes of fill_rand
StRand    == {[k \in 0..9 |-> 255], [k \in 0..9 |-> (37 * (k + 1)) % 256]}
\* timestamptz arguments: whole milliseconds 0, 1, the tests' instant and
\* 2^48 - 1 after the Unix epoch; the tests' instant plus 999 microseconds;
\* one microsecond before the Unix epoch; 2^48 milliseconds after it
StStamps ==
  {unix_ms_to_timestamptz(ms) :
     ms \in {Zero64, <<1, 0, 0, 0>>, <<55432, 51232, 396, 0>>,
             <<65535, 65535, 65535, 0>>, <<0, 0, 0, 1>>}}
  \cup {Add64(unix_ms_to_timestamptz(<<55432, 51232, 396, 0>>), <<999, 0, 0, 0>>),
        Sub64(unix_ms_to_timestamptz(Zero64), <<1, 0, 0, 0>>)}

StoreInit ==
  /\ \/ uuid47_key_guc = GucOf(KeyText(RawTest, "colon")) /\ key_bytea \in {RawTest, RawOther}
     \/ uuid47_key_guc = GucNull /\ key_bytea \in {RawTest} \cup BadByteas
     \/ uuid47_key_guc = GucOf(Rep(48, CompactSize)) /\ key_bytea = RawTest
  /\ key_calls = <<>>
  /\ key_top = -1
  /\ key_ub \in (IF CompactOverrun(uuid47_key_guc) THEN UbOutcomes ELSE {"none"})
  /\ StIdle /\ BkIdle /\ MaskIdle /\ SipIdle /\ TxtIdle /\ GenIdle

StFrame == UNCHANGED <<keyVars, bkVars, maskVars, sipVars, txtVars, genVars>>

\* an entry point fn, called on the bytes u (or the timestamp ts), returned r
StAdmit(fn, u, ts, r) ==
  /\ st_pc = "empty"
  /\ st_from' = fn /\ st_in' = u /\ st_tsarg' = ts
  /\ IF r.err = "none"
     THEN st_pc' = "stored" /\ st_val' = r.val /\ st_err' = st_err
     ELSE st_pc' = "failed" /\ st_val' = st_val /\ st_err' = r.err
  /\ UNCHANGED <<st_outfn, st_out, st_ts, st_back>>
  /\ StFrame

StIn(u)   == StAdmit("uuid47_in", u, Zero64, uuid47_in(u, uuid47_key_guc))
StRecv(u) == StAdmit("uuid47_recv", u, Zero64, uuid47_recv(u, uuid47_key_guc))
StFromUuid(u) == StAdmit("uuid_to_uuid47", u, Zero64, uuid_to_uuid47(u, uuid47_key_guc))
StFromUuidWithKey(u) ==
  StAdmit("uuid_to_uuid47_with_key", u, Zero64, uuid_to_uuid47_with_key(u, key_bytea))
StGenerate(ms, r) == StAdmit("uuid47_generate", ZeroUuid, Zero64, uuid47_generate(ms, r))
StGenerateAt(ts, r) ==
  StAdmit("uuid47_generate_at", ZeroUuid, ts, uuid47_generate_at(ts, r))

\* a presentation function fn, called on the stored value, returned r
StShow(fn, r) ==
  /\ st_pc = "stored"
  /\ st_outfn' = fn
  /\ IF r.err = "none"
     THEN st_pc' = "shown" /\ st_out' = r.val /\ st_err' = st_err
     ELSE st_pc' = "failed" /\ st_out' = st_out /\ st_err' = r.err
  /\ UNCHANGED <<st_from, st_in, st_tsarg, st_val, st_ts, st_back>>
  /\ StFrame

StOut     == StShow("uuid47_out", uuid47_out(st_val, uuid47_key_guc))
StSend    == StShow("uuid47_send", uuid47_send(st_val, uuid47_key_guc))
StToUuid  == StShow("uuid47_to_uuid", uuid47_to_uuid(st_val, uuid47_key_guc))
StToUuidWithKey ==
  StShow("uuid47_to_uuid_with_key", uuid47_to_uuid_with_key(st_val, key_bytea))
StAsV7    == StShow("uuid47_as_v7", uuid47_as_v7(st_val))
StExplain == StShow("uuid47_explain", uuid47_explain(st_val, uuid47_key_guc))

\* uuid47_timestamp on the stored value
StTimestamp ==
  /\ st_pc = "stored"
  /\ st_outfn' = "uuid47_timestamp" /\ st_ts' = uuid47_timestamp(st_val)
  /\ st_pc' = "shown"
  /\ UNCHANGED <<st_from, st_in, st_tsarg, st_val, st_out, st_back, st_err>>
  /\ StFrame

\* the uuid that uuid47_to_uuid returned is cast back: uuid_to_uuid47
StBack ==
  /\ st_pc = "shown" /\ st_outfn = "uuid47_to_uuid"
  /\ IF uuid_to_uuid47(st_out, uuid47_key_guc).err = "none"
     THEN /\ st_pc' = "back" /\ st_err' = st_err
          /\ st_back' = uuid_to_uuid47(st_out, uuid47_key_guc).val
     ELSE /\ st_pc' = "failed" /\ st_back' = st_back
          /\ st_err' = uuid_to_uuid47(st_out, uuid47_key_guc).err
  /\ UNCHANGED <<st_from, st_in, st_tsarg, st_val, st_outfn, st_out, st_ts>>
  /\ StFrame

StoreNext ==
  \/ \E u \in StInputs : StIn(u) \/ StRecv(u) \/ StFromUuid(u) \/ StFromUuidWithKey(u)
  \/ \E r \in StRand : (\E ms \in StClock : StGenerate(ms, r))
                         \/ (\E ts \in StStamps : StGenerateAt(ts, r))
  \/ StOut \/ StSend \/ StToUuid \/ StToUuidWithKey \/ StAsV7 \/ StExplain
  \/ StTimestamp \/ StBack

SpecStore == StoreInit /\ [][StoreNext]_vars

\* the key the tests set, as parse_key_from_guc reads it
StKey == [k0 |-> LE64(RawTest, 0), k1 |-> LE64(RawTest, 8)]
StEntries == {"uuid47_in", "uuid47_recv", "uuid_to_uuid47", "uuid_to_uuid47_with_key",
              "uuid47_generate", "uuid47_generate_at"}

\* C12 as claimed: every value stored through an entry point is in sortable
\* form, version nibble 7 and variant bits 10.
C12_StoredIsSortable ==
  (st_pc \in {"stored", "shown", "back"} /\ st_from \in StEntries) => IsSortable(st_val)

\* C12, the case that diverges: uuid47_in was given 16 bytes with version
\* nibble 7 and variant bits other than 10, and stored them as they were.
C12_StoredWithOtherVariant ==
  /\ st_pc = "stored" /\ st_from = "uuid47_in"
  /\ uuid_version(st_val) = 7 /\ VariantBits(st_val) # 2
  /\ st_val = st_in

\* C13 as claimed: what uuid47_out, uuid47_send and uuid47_to_uuid hand out is
\* encode(stored value, key): a facade, version nibble 4, with the masked
\* timestamp, and not the stored bytes.
C13_PresentationEncodes ==
  (st_pc = "shown" /\ st_outfn \in {"uuid47_out", "uuid47_send", "uuid47_to_uuid"}) =>
    /\ uuid_version(st_out) = 4
    /\ st_out # st_val
    /\ uuid47_key_guc = GucOf(KeyText(RawTest, "colon"))
         => st_out = uuidv47_encode_v4facade(st_val, StKey)

\* C13, the case that diverges: uuid47_send handed out the stored sortable
\* value byte for byte, version nibble 7, in a session with the key set.
C13_SendHandsOutStored ==
  /\ st_pc = "shown" /\ st_outfn = "uuid47_send"
  /\ uuid47_key_guc = GucOf(KeyText(RawTest, "colon"))
  /\ IsSortable(st_val) /\ st_out = st_val

\* C14 as claimed: for a stored value u, from a generator or admitted through
\* uuid47_in, uuid47_recv or uuid_to_uuid47, and the key unchanged,
\* uuid_to_uuid47(uuid47_to_uuid(u)) is u.
C14_CastRoundTrip ==
  (st_pc = "back" /\ st_from \in StEntries \ {"uuid_to_uuid47_with_key"})
    => st_back = st_val

\* C14, the case that diverges: a value admitted by uuid_to_uuid47 with
\* version nibble 7 and variant bits 11 came back from the two casts with
\* variant bits 10.
C14_CastChangedVariant ==
  /\ st_pc = "back" /\ st_from = "uuid_to_uuid47"
  /\ VariantBits(st_val) = 3 /\ VariantBits(st_back) = 2
  /\ st_back = set_variant_rfc4122(st_val)

\* ts is a whole number of milliseconds, at or after the Unix epoch, below
\* 2^48 milliseconds after it
WholeMsInRange(ts) ==
  /\ ~IsNeg64(Add64(ts, EpochOffsetUs))
  /\ MulSmall64(DivSmall64(Add64(ts, EpochOffsetUs), 1000), 1000) = Add64(ts, EpochOffsetUs)
  /\ DivSmall64(Add64(ts, EpochOffsetUs), 1000)[4] = 0

\* C18: for a timestamp ts that is a whole number of milliseconds, at or after
\* the Unix epoch and below 2^48 ms, uuid47_timestamp(uuid47_generate_at(ts))
\* is ts.
C18_GenerateAtTimestamp ==
  ( /\ st_pc = "shown" /\ st_from = "uuid47_generate_at"
    /\ st_outfn = "uuid47_timestamp"
    /\ WholeMsInRange(st_tsarg) )
  => st_ts = st_tsarg

\* C18 witness: uuid47_generate_at was called with the last millisecond below
\* 2^48, a timestamptz after 2000-01-01, and uuid47_timestamp of the stored
\* value returned it.
C18_Witness ==
  /\ st_pc = "shown" /\ st_from = "uuid47_generate_at" /\ st_outfn = "uuid47_timestamp"
  /\ Ts48(st_val) = <<255, 255, 255, 255, 255, 255>>
  /\ WholeMsInRange(st_tsarg) /\ ~IsNeg64(st_tsarg) /\ st_tsarg # Zero64
  /\ st_ts = st_tsarg

\* the four entry points that take 16 bytes from outside
StInputEntries == {"uuid47_in", "uuid47_recv", "uuid_to_uuid47", "uuid_to_uuid47_with_key"}
\* such an entry point was called and raised, resp. returned
EntryRaised == st_pc = "failed" /\ st_outfn = "none"
EntryStored == st_pc \in {"stored", "shown", "back"} \/ (st_pc = "failed" /\ st_outfn # "none")
\* the key source of the entry point is well formed, and the key it denotes
EntryKeyGiven ==
  IF st_from = "uuid_to_uuid47_with_key" THEN Len(key_bytea) = 16
  ELSE ~uuid47_key_guc.null /\ IsKeyText(NoBlanks(uuid47_key_guc.s))
EntryKey ==
  IF st_from = "uuid_to_uuid47_with_key"
  THEN [k0 |-> LE64(key_bytea, 0), k1 |-> LE64(key_bytea, 8)]
  ELSE StKey

C30_EntryAcceptsByVersionAndKey ==
  (st_from \in StInputEntries /\ ~CompactOverrun(uuid47_key_guc)) =>
    IF st_from = "uuid_to_uuid47_with_key" /\ ~EntryKeyGiven
    THEN EntryRaised /\ st_err = "keylen" /\ st_val = ZeroUuid
    ELSE /\ uuid_version(st_in) = 7 => (EntryStored /\ st_val = st_in)
         /\ uuid_version(st_in) = 4 =>
              IF EntryKeyGiven
              THEN EntryStored /\ st_val = uuidv47_decode_v4facade(st_in, EntryKey)
              ELSE EntryRaised /\ st_err = "key" /\ st_val = ZeroUuid
         /\ uuid_version(st_in) \notin {4, 7}
              => (EntryRaised /\ st_err = "version" /\ st_val = ZeroUuid)

====
